---- MODULE Spec2Model ----
(***************************************************************************)
(* Student-information-system backend: colleges, programs, students,      *)
(* session authentication and the dashboard cache.                        *)
(*                                                                         *)
(* Two runnable applications share the repository:                         *)
(*   - backend/app/__init__.py wires app/{auth,college,program,student}/   *)
(*     controller.py                                   (specification Spec)*)
(*   - backend/run.py wires app/routes/*.py over backend/db.py             *)
(*                                               (specification SpecRoutes)*)
(* The relational store is one record `db`; a code is a pair               *)
(* <<base, letter case>> so that str.upper() is a real conversion.         *)
(***************************************************************************)
EXTENDS Integers, Sequences, FiniteSets, TLC

\* ---------------------------------------------------------------- bounds
NumColleges == 1
NumProgramCodes == 2
NumStudents == 2
NumUsers == 2

\* ----------------------------------------------------------- value domains
\* SQL NULL / Python None
NULL == <<0, "null">>
\* an empty string given as a code ("not data['code']" is true)
EmptyCode == <<0, "">>
\* a code that fails the format regex
BadCode == <<0, "bad!">>
\* letter case of a code as typed by the client
Cases == {"lo", "up"}
CollegeCodes == (1..NumColleges) \X Cases
ProgramCodes == (1..NumProgramCodes) \X Cases
\* the codes typed in URLs: lower case, so that the handlers' upper() acts
CollegePaths == (1..NumColleges) \X {"lo"}
ProgramPaths == (1..NumProgramCodes) \X {"lo"}
\* ids are digits and a hyphen, so str.upper() leaves them as they are
StudentIds == (1..NumStudents) \X {"id"}
UserIds == 1..NumUsers
\* str.upper()
upper(c) ==
    IF c[1] = 0 \/ c[2] = "id" THEN c ELSE <<c[1], "up">>
\* re.match(r"^[A-Za-z0-9\-]{2,10}$", code)
code_regex(c) ==
    c[1] # 0

\* ------------------------------------------------------------ the schema
\* (PostgreSQL semantics of the declared tables; a statement result is
\*  [err, rows, db] with err = "" when the statement succeeded)
\* college_name: the name column of the college rows, by code
EmptyDb == [college |-> {}, college_name |-> << >>, program |-> {}, student |-> {}]
\* program.college REFERENCES college(code) ... ON DELETE SET NULL
\* the foreign key without its ON DELETE action
on_delete_college_no_action(programs, code) ==
    programs
on_delete_college(programs, code) ==
    {[p EXCEPT !.college = IF @ = code THEN NULL ELSE @] : p \in programs}
\* program.college REFERENCES college(code) ON UPDATE CASCADE
on_update_college(programs, old, new) ==
    {[p EXCEPT !.college = IF @ = old THEN new ELSE @] : p \in programs}
\* student.course REFERENCES program(code) ... ON DELETE SET NULL
on_delete_program(students, codes) ==
    {[s EXCEPT !.course = IF @ \in codes THEN NULL ELSE @] : s \in students}
\* student.course REFERENCES program(code) ON UPDATE CASCADE
on_update_program(students, old, new) ==
    {[s EXCEPT !.course = IF @ = old THEN new ELSE @] : s \in students}
\* the foreign keys hold of a candidate table state
fk_program_ok(d, row) ==
    row.college = NULL \/ row.college \in d.college
fk_student_ok(d, row) ==
    row.course = NULL \/ \E p \in d.program : p.code = row.course

sql_insert_college(d, code, name) ==
    IF code \in d.college
    THEN [err |-> "unique", rows |-> 0, db |-> d]
    ELSE [err |-> "", rows |-> 1,
          db |-> [d EXCEPT !.college = @ \cup {code},
                           !.college_name = [c \in DOMAIN @ \cup {code} |->
                                                IF c = code THEN name ELSE @[c]]]]
\* DELETE FROM college WHERE code = %s
sql_delete_college(d, code) ==
    IF code \notin d.college
    THEN [err |-> "", rows |-> 0, db |-> d]
    ELSE [err |-> "", rows |-> 1,
          db |-> [d EXCEPT !.college = @ \ {code},
                           !.college_name = [c \in DOMAIN @ \ {code} |-> @[c]],
                           !.program = on_delete_college(@, code)]]
\* UPDATE college SET code = new WHERE code = %s
sql_update_college(d, code, new) ==
    IF code \notin d.college
    THEN [err |-> "", rows |-> 0, db |-> d]
    ELSE IF new # code /\ new \in d.college
    THEN [err |-> "unique", rows |-> 0, db |-> d]
    ELSE [err |-> "", rows |-> 1,
          db |-> [d EXCEPT !.college = (@ \ {code}) \cup {new},
                           !.college_name = [c \in (DOMAIN @ \ {code}) \cup {new} |->
                                                IF c = new THEN @[code] ELSE @[c]],
                           !.program = on_update_college(@, code, new)]]
\* UPDATE college SET name = %s WHERE code = %s
sql_update_college_name(d, code, name) ==
    IF code \notin d.college
    THEN [err |-> "", rows |-> 0, db |-> d]
    ELSE [err |-> "", rows |-> 1, db |-> [d EXCEPT !.college_name[code] = name]]

\* rows of program with UPPER(code) = u
programs_upper(d, u) ==
    {p \in d.program : upper(p.code) = u}
sql_insert_program(d, row) ==
    IF \E p \in d.program : p.code = row.code
    THEN [err |-> "unique", rows |-> 0, db |-> d]
    ELSE IF ~fk_program_ok(d, row)
    THEN [err |-> "violates foreign key constraint", rows |-> 0, db |-> d]
    ELSE [err |-> "", rows |-> 1, db |-> [d EXCEPT !.program = @ \cup {row}]]
\* DELETE FROM program WHERE <rows in hit>
sql_delete_program(d, hit) ==
    [err |-> "", rows |-> Cardinality(hit),
     db |-> [d EXCEPT !.program = @ \ hit,
                      !.student = on_delete_program(@, {p.code : p \in hit})]]
\* UPDATE program SET code = new WHERE UPPER(code) = u
sql_update_program_code(d, u, new) ==
    LET hit == programs_upper(d, u) IN
    IF hit = {}
    THEN [err |-> "", rows |-> 0, db |-> d]
    ELSE IF Cardinality(hit) > 1
            \/ \E q \in d.program \ hit : q.code = new
    THEN [err |-> "unique", rows |-> 0, db |-> d]
    ELSE LET p == CHOOSE x \in hit : TRUE IN
         [err |-> "", rows |-> 1,
          db |-> [d EXCEPT !.program = (@ \ hit) \cup {[p EXCEPT !.code = new]},
                           !.student = on_update_program(@, p.code, new)]]
\* UPDATE program SET name = %s, college = %s WHERE UPPER(code) = u
sql_update_program_fields(d, u, college) ==
    LET hit == programs_upper(d, u) IN
    IF hit = {}
    THEN [err |-> "", rows |-> 0, db |-> d]
    ELSE IF ~fk_program_ok(d, [college |-> college])
    THEN [err |-> "violates foreign key constraint", rows |-> 0, db |-> d]
    ELSE [err |-> "", rows |-> Cardinality(hit),
          db |-> [d EXCEPT !.program =
                      (@ \ hit) \cup {[p EXCEPT !.college = college] : p \in hit}]]

sql_insert_student(d, row) ==
    IF \E s \in d.student : s.id = row.id
    THEN [err |-> "unique", rows |-> 0, db |-> d]
    ELSE IF ~fk_student_ok(d, row)
    THEN [err |-> "violates foreign key constraint", rows |-> 0, db |-> d]
    ELSE [err |-> "", rows |-> 1, db |-> [d EXCEPT !.student = @ \cup {row}]]
\* DELETE FROM student WHERE id = %s
sql_delete_student(d, id) ==
    LET hit == {s \in d.student : s.id = id} IN
    [err |-> "", rows |-> Cardinality(hit), db |-> [d EXCEPT !.student = @ \ hit]]
\* UPDATE student SET <fields of upd> WHERE id = %s
sql_update_student(d, id, upd) ==
    LET hit == {s \in d.student : s.id = id}
        new(s) == [f \in DOMAIN s |-> IF f \in DOMAIN upd THEN upd[f] ELSE s[f]]
    IN
    IF hit = {}
    THEN [err |-> "", rows |-> 0, db |-> d]
    ELSE IF \E s \in hit : ~fk_student_ok(d, new(s))
    THEN [err |-> "violates foreign key constraint", rows |-> 0, db |-> d]
    ELSE [err |-> "", rows |-> Cardinality(hit),
          db |-> [d EXCEPT !.student = (@ \ hit) \cup {new(s) : s \in hit}]]

\* ------------------------------------------------------- requests, replies
\* request.get_json() returning nothing
NoData == [x \in {} |-> 0]
\* jsonify(body), status
Resp(status, body) ==
    [status |-> status, body |-> body]
\* fetchone() / maybe_single(): the possible results as sets of at most one row
get_one(rows) ==
    IF rows = {} THEN {{}} ELSE {{r} : r \in rows}
\* "field not in data or not data[field]"
\* the fields whose values are free text; the others carry codes
TextFields == {"name", "firstname", "lastname", "gender", "password"}
blank(data, f) ==
    \/ f \notin DOMAIN data
    \/ IF f \in TextFields THEN data[f] = "" ELSE data[f] = EmptyCode
\* a name typed with blanks around it
PaddedName == "  Valid Name "
\* str.strip(), on the names the requests carry
strip(n) ==
    IF n = PaddedName THEN "Valid Name" ELSE n
\* the two length errors of a name
name_errors(data, what) ==
    IF blank(data, "name") THEN <<>>
    ELSE (IF Len(strip(data.name)) < 5
          THEN <<what \o " name must be at least 5 characters long">> ELSE <<>>)
         \o (IF Len(strip(data.name)) > 100
             THEN <<what \o " name must not exceed 100 characters">> ELSE <<>>)
\* the JSON bodies sent: the well-formed ones, typed in either letter case,
\* and one body for each way of being rejected
\* the text of the exception raised by a store that cannot be reached;
\* NoFault: the store answers
StoreFaults == {"connection refused", "timeout expired"}
NoFault == ""
CollegeData ==
    [code : CollegeCodes, name : {"Valid Name"}]
    \cup {[code |-> BadCode, name |-> "Valid Name"],
          [code |-> <<1, "up">>, name |-> "Abc"],
          [code |-> <<1, "lo">>, name |-> PaddedName],
          [name |-> "Valid Name"], NoData}
ProgramData ==
    [code : ProgramCodes, name : {"Valid Name"}, college : (1..NumColleges) \X {"lo"}]
    \cup {[code |-> BadCode, name |-> "Valid Name", college |-> <<1, "up">>],
          [code |-> <<1, "up">>, name |-> "Abc", college |-> <<1, "up">>],
          [code |-> <<1, "up">>, name |-> "Valid Name", college |-> EmptyCode],
          [name |-> "Valid Name", college |-> <<1, "up">>], NoData}

\* ------------------------------------- app/college/controller.py (Spec)
validate_college_data(d, data, college_code, is_update) ==
    LET code == upper(data.code)
        existing == code \in d.college
    IN  (IF is_update
         THEN (IF "name" \in DOMAIN data /\ blank(data, "name")
               THEN <<"name cannot be empty">> ELSE <<>>)
              \o (IF "code" \in DOMAIN data /\ blank(data, "code")
                  THEN <<"code cannot be empty">> ELSE <<>>)
         ELSE (IF blank(data, "code") THEN <<"code is required">> ELSE <<>>)
              \o (IF blank(data, "name") THEN <<"name is required">> ELSE <<>>))
        \o (IF blank(data, "code") THEN <<>>
            ELSE (IF ~code_regex(code)
                  THEN <<"College code must be 2-10 characters, letters, numbers, and hyphens only">>
                  ELSE <<>>)
                 \o (IF existing /\ (IF is_update
                                     THEN college_code # NULL /\ code # college_code
                                     ELSE TRUE)
                     THEN <<"College code already exists">> ELSE <<>>))
        \o name_errors(data, "College")

\* the insert without the validation before it
create_college_unchecked(d, data) ==
    IF data = NoData \/ blank(data, "code") \/ blank(data, "name")
    THEN [db |-> d, resp |-> Resp(400, [error |-> "No data provided"])]
    ELSE LET r == sql_insert_college(d, upper(data.code), strip(data.name)) IN
    IF r.err # ""
    THEN [db |-> d, resp |-> Resp(500, [error |-> r.err])]
    ELSE [db |-> r.db,
          resp |-> Resp(201, [message |-> "College created successfully",
                              college |-> [code |-> upper(data.code),
                                           name |-> strip(data.name)]])]

\* fault: what the store does with the INSERT; insert_record lets the
\* exception of the cursor through to the handler's except clause
create_college_on(d, data, fault) ==
    IF data = NoData
    THEN [db |-> d, resp |-> Resp(400, [error |-> "No data provided"])]
    ELSE LET errors == validate_college_data(d, data, NULL, FALSE) IN
    IF errors # <<>>
    THEN [db |-> d, resp |-> Resp(400, [errors |-> errors])]
    ELSE LET r == IF fault # NoFault THEN [err |-> fault, rows |-> 0, db |-> d]
                  ELSE sql_insert_college(d, upper(data.code), strip(data.name)) IN
    IF r.err # ""
    THEN [db |-> d, resp |-> Resp(500, [error |-> r.err])]
    ELSE [db |-> r.db,
          resp |-> Resp(201, [message |-> "College created successfully",
                              college |-> [code |-> upper(data.code),
                                           name |-> strip(data.name)]])]

create_college(d, data) ==
    create_college_on(d, data, NoFault)

\* GET /api/colleges; fault: what the store does with the SELECT count(*)
get_colleges_on(d, fault) ==
    IF fault # NoFault
    THEN [db |-> d, resp |-> Resp(500, [error |-> fault])]
    ELSE [db |-> d, resp |-> Resp(200, [total |-> Cardinality(d.college)])]

\* database.update_record("college", update_data, "code = %s", [code])
update_record_college(d, code, update_data) ==
    LET named == IF "name" \in DOMAIN update_data
                 THEN sql_update_college_name(d, code, update_data.name)
                 ELSE [err |-> "", rows |-> IF code \in d.college THEN 1 ELSE 0,
                       db |-> d]
    IN
    IF "code" \in DOMAIN update_data
    THEN sql_update_college(named.db, code, update_data.code)
    ELSE named

\* a lookup with the identifier as it was typed
get_college_as_typed(d, college_identifier) ==
    IF college_identifier \notin d.college
    THEN Resp(404, [error |-> "College not found"])
    ELSE Resp(200, [code |-> college_identifier,
                    name |-> d.college_name[college_identifier]])

\* GET /colleges/{college_identifier}: the college with its programs, each
\* with its number of students
get_college(d, college_identifier) ==
    LET code == upper(college_identifier) IN
    IF code \notin d.college
    THEN Resp(404, [error |-> "College not found"])
    ELSE Resp(200, [code |-> code, name |-> d.college_name[code],
                    programs |-> {[code |-> program.code,
                                   student_count |-> Cardinality(
                                       {s \in d.student : s.course = program.code})] :
                                     program \in {p \in d.program : p.college = code}}])

\* College.create_college and College.get_by_code: the code as it is given
models_create_college(d, code, name) ==
    sql_insert_college(d, code, name)
models_get_by_code(d, college_code) ==
    IF college_code \notin d.college THEN NULL
    ELSE [code |-> college_code, name |-> d.college_name[college_code]]

update_college(d, college_identifier, data) ==
    IF upper(college_identifier) \notin d.college
    THEN [db |-> d, resp |-> Resp(404, [error |-> "College not found"])]
    ELSE IF data = NoData
    THEN [db |-> d, resp |-> Resp(400, [error |-> "No data provided"])]
    ELSE LET errors == validate_college_data(d, data, upper(college_identifier), TRUE) IN
    IF errors # <<>>
    THEN [db |-> d, resp |-> Resp(400, [errors |-> errors])]
    ELSE LET update_data ==
                 [f \in DOMAIN data \cap {"name", "code"} |->
                     IF f = "code" THEN upper(data.code) ELSE strip(data[f])]
         IN
    IF DOMAIN update_data = {}
    THEN [db |-> d, resp |-> Resp(400, [error |-> "No fields to update"])]
    ELSE LET r == update_record_college(d, upper(college_identifier), update_data) IN
    IF r.err = "violates foreign key constraint"
    THEN [db |-> d, resp |-> Resp(400, [error |->
             "Cannot update college code because it has linked programs. Please contact administrator or update programs first."])]
    ELSE IF r.err # ""
    THEN [db |-> d, resp |-> Resp(500, [error |-> r.err])]
    ELSE IF r.rows = 0
    THEN [db |-> r.db, resp |-> Resp(404, [error |-> "College not found"])]
    ELSE [db |-> r.db, resp |-> Resp(200, [message |-> "College updated successfully"])]

delete_college(d, college_identifier) ==
    IF upper(college_identifier) \notin d.college
    THEN [db |-> d, resp |-> Resp(404, [error |-> "College not found"])]
    ELSE LET r == sql_delete_college(d, upper(college_identifier)) IN
    IF r.rows = 0
    THEN [db |-> r.db, resp |-> Resp(404, [error |-> "College not found"])]
    ELSE [db |-> r.db, resp |-> Resp(200, [message |-> "College deleted successfully"])]

\* ------------------------------------- app/program/controller.py (Spec)
\* existing: the row get_one("program", "UPPER(code) = %s") returned, as a
\* set of at most one row
validate_program_data(d, data, program_code, existing) ==
    (IF blank(data, "code") THEN <<"code is required">> ELSE <<>>)
    \o (IF blank(data, "name") THEN <<"name is required">> ELSE <<>>)
    \o (IF blank(data, "college") THEN <<"college is required">> ELSE <<>>)
    \o (IF blank(data, "code") THEN <<>>
        ELSE (IF ~code_regex(data.code)
              THEN <<"Program code must be 2-10 characters, letters, numbers, and hyphens only">>
              ELSE <<>>)
             \o (IF \E e \in existing :
                       IF program_code # NULL
                       THEN upper(e.code) # upper(program_code)
                       ELSE TRUE
                 THEN <<"Program code already exists">> ELSE <<>>))
    \o name_errors(data, "Program")
    \o (IF blank(data, "college") THEN <<>>
        ELSE IF \E c \in d.college : upper(c) = upper(data.college)
        THEN <<>> ELSE <<"Invalid college code">>)

\* the lookup matching the code as typed, without UPPER()
existing_for_exact(d, data) ==
    IF blank(data, "code") THEN {{}}
    ELSE get_one({p \in d.program : p.code = data.code})
\* the rows validate_program_data's lookup may return for a body
existing_for(d, data) ==
    IF blank(data, "code") THEN {{}}
    ELSE get_one(programs_upper(d, upper(data.code)))

create_program(d, data, existing) ==
    IF data = NoData
    THEN [db |-> d, resp |-> Resp(400, [error |-> "No data provided"])]
    ELSE LET errors == validate_program_data(d, data, NULL, existing) IN
    IF errors # <<>>
    THEN [db |-> d, resp |-> Resp(400, [errors |-> errors])]
    ELSE LET r == sql_insert_program(d, [code |-> data.code,
                                         college |-> upper(data.college)]) IN
    IF r.err # ""
    THEN [db |-> d, resp |-> Resp(500, [error |-> r.err])]
    ELSE [db |-> r.db,
          resp |-> Resp(201, [message |-> "Program created successfully",
                              program |-> data.code])]

\* DatabaseManager.get_cursor: the committed store when the with-block is
\* left, given the store before it, the transaction's working copy, whether
\* the block executed ROLLBACK itself and whether it raised
get_cursor(commit, before, work, rolled_back, raised) ==
    IF raised \/ rolled_back \/ ~commit THEN before ELSE work

\* update_program up to the start of its transaction: a reply, or the
\* transaction to run
update_program_check(d, program_code, data, existing_program, existing) ==
    IF existing_program = {}
    THEN [done |-> TRUE, resp |-> Resp(404, [error |-> "Program not found"])]
    ELSE IF data = NoData
    THEN [done |-> TRUE, resp |-> Resp(400, [error |-> "No data provided"])]
    ELSE LET errors == validate_program_data(d, data, upper(program_code), existing) IN
    IF errors # <<>>
    THEN [done |-> TRUE, resp |-> Resp(400, [errors |-> errors])]
    ELSE LET old_code == (CHOOSE e \in existing_program : TRUE).code
             code_changed == "code" \in DOMAIN data /\ upper(data.code) # upper(old_code)
         IN
    IF DOMAIN data \cap {"name", "college", "code"} = {}
    THEN [done |-> TRUE, resp |-> Resp(400, [error |-> "No fields to update"])]
    ELSE [done |-> FALSE, old_code |-> old_code, code_changed |-> code_changed,
          code |-> IF code_changed THEN data.code ELSE old_code,
          college |-> upper(data.college)]

\* SELECT id, course FROM student WHERE UPPER(course) = %s
affected_students(d, old_code) ==
    Cardinality({s \in d.student : upper(s.course) = upper(old_code)})

\* UPDATE program SET code = %s WHERE UPPER(code) = %s, with its cascade
update_program_statement(d, t) ==
    sql_update_program_code(d, upper(t.old_code), t.code)

\* len(updated_students) != len(affected_students), the second SELECT run
\* on the store as the connection sees it
update_program_mismatch(d, t, affected) ==
    Cardinality({s \in d.student : s.course = t.code}) # affected

RolledBack ==
    Resp(500, [error |-> "Failed to update all student references. Transaction rolled back."])

\* the reply of a rename that passed its verification
Renamed(affected) ==
    Resp(200, [message |-> "Program updated successfully",
               code_changed |-> TRUE, affected_students |-> affected])

\* the statements after the first SELECT, the verification and the exit of
\* the with-block; d is the committed store the UPDATE runs on (READ
\* COMMITTED), affected the first SELECT's row count
update_program_write(d, t, affected) ==
    IF t.code_changed
    THEN LET r == update_program_statement(d, t) IN
         IF r.err # ""
         THEN [db |-> get_cursor(TRUE, d, d, FALSE, TRUE),
               resp |-> Resp(500, [error |-> r.err])]
         ELSE IF update_program_mismatch(r.db, t, affected)
         THEN [db |-> get_cursor(TRUE, d, r.db, TRUE, FALSE), resp |-> RolledBack]
         ELSE [db |-> get_cursor(TRUE, d, r.db, FALSE, FALSE),
               resp |-> Renamed(affected)]
    ELSE LET r == sql_update_program_fields(d, upper(t.old_code), t.college) IN
         IF r.err # ""
         THEN [db |-> get_cursor(TRUE, d, d, FALSE, TRUE),
               resp |-> Resp(500, [error |-> r.err])]
         ELSE [db |-> get_cursor(TRUE, d, r.db, FALSE, FALSE),
               resp |-> Resp(200, [message |-> "Program updated successfully",
                                   code_changed |-> FALSE,
                                   affected_students |-> 0])]

\* the whole handler when no other request runs between its statements
update_program(d, program_code, data, existing_program, existing) ==
    LET t == update_program_check(d, program_code, data, existing_program, existing) IN
    IF t.done THEN [db |-> d, resp |-> t.resp]
    ELSE update_program_write(d, t, affected_students(d, t.old_code))

delete_program(d, program_code) ==
    LET hit == programs_upper(d, upper(program_code)) IN
    IF hit = {}
    THEN [db |-> d, resp |-> Resp(404, [error |-> "Program not found"])]
    ELSE LET r == sql_delete_program(d, hit) IN
    IF r.rows = 0
    THEN [db |-> r.db, resp |-> Resp(404, [error |-> "Program not found"])]
    ELSE [db |-> r.db, resp |-> Resp(200, [message |-> "Program deleted successfully"])]

\* ------------------------------------- app/student/controller.py (Spec)
\* the stored file name of an uploaded photo
Photo == <<1, "photo.png">>
StudentData ==
    [id : StudentIds, firstname : {"Ana"}, lastname : {"Cruz"},
     course : (1..NumProgramCodes) \X {"up"}, year : {1}, gender : {"male"}]
    \cup {[id |-> BadCode, firstname |-> "Ana", lastname |-> "Cruz",
           course |-> <<1, "up">>, year |-> 1, gender |-> "male"],
          [id |-> <<1, "id">>, firstname |-> "", lastname |-> "Cruz",
           course |-> EmptyCode, year |-> 9, gender |-> "x"],
          NoData}
\* the gate the student controller imports from the auth controller
require_auth(sess, d, out) ==
    IF "user_id" \notin DOMAIN sess
    THEN [db |-> d, resp |-> Resp(401, [error |-> "Authentication required"]),
          reads |-> FALSE, clear |-> FALSE]
    ELSE out
\* the program table as it was when the process started, which a memoised
\* lookup (functools.lru_cache is imported) would keep returning
get_valid_programs_cached(d) ==
    {upper(p.code) : p \in EmptyDb.program}
\* {p['code'].upper(): p for p in programs}
get_valid_programs(d) ==
    {upper(p.code) : p \in d.program}
validate_student_data(d, data, student_id) ==
    LET req_err(f) == IF blank(data, f) THEN <<f \o " is required">> ELSE <<>>
        sid == upper(data.id)
    IN  req_err("id") \o req_err("firstname") \o req_err("lastname")
        \o req_err("course")
        \o (IF "year" \notin DOMAIN data THEN <<"year is required">> ELSE <<>>)
        \o req_err("gender")
        \o (IF blank(data, "id") THEN <<>>
            ELSE IF ~code_regex(sid)
            THEN <<"Student ID must follow format YYYY-NNNN (e.g., 2024-0001)">>
            ELSE IF \E e \in d.student :
                      e.id = sid /\ (student_id = NULL \/ e.id # student_id)
            THEN <<"Student ID already exists">> ELSE <<>>)
        \o (IF "year" \in DOMAIN data /\ (data.year < 1 \/ data.year > 6)
            THEN <<"Year must be between 1 and 6">> ELSE <<>>)
        \o (IF ~blank(data, "gender")
               /\ data.gender \notin {"male", "female", "non-binary",
                                      "prefer not to say", "other"}
            THEN <<"Gender must be Male, Female, Non-binary, Prefer not to say, or Other">>
            ELSE <<>>)
        \o (IF ~blank(data, "course") /\ upper(data.course) \notin get_valid_programs(d)
            THEN <<"Invalid program code">> ELSE <<>>)

\* fault: what the store does with the SELECT; get_all of the Supabase
\* adapter catches the exception and returns [], and so does get_valid_programs
get_students_on(d, sess, fault) ==
    require_auth(sess, d,
        [db |-> d,
         resp |-> Resp(200, [total |-> IF fault # NoFault THEN 0
                                       ELSE Cardinality(d.student)]),
         reads |-> TRUE, clear |-> FALSE])

get_students(d, sess) ==
    get_students_on(d, sess, NoFault)

get_student(d, sess, student_id) ==
    require_auth(sess, d,
        [db |-> d,
         resp |-> IF \E s \in d.student : s.id = upper(student_id)
                  THEN Resp(200, [id |-> upper(student_id)])
                  ELSE Resp(404, [error |-> "Student not found"]),
         reads |-> TRUE, clear |-> FALSE])

\* actual_program: the entry of get_valid_programs() for the course, as a
\* set of at most one row
create_student_json(d, data, actual_program) ==
    IF data = NoData
    THEN [db |-> d, resp |-> Resp(400, [error |-> "No data provided"]),
          reads |-> FALSE, clear |-> FALSE]
    ELSE LET errors == validate_student_data(d, data, NULL) IN
    IF errors # <<>>
    THEN [db |-> d, resp |-> Resp(400, [errors |-> errors]),
          reads |-> TRUE, clear |-> FALSE]
    ELSE LET course == IF actual_program = {} THEN upper(data.course)
                       ELSE (CHOOSE p \in actual_program : TRUE).code
             r == sql_insert_student(d, [id |-> upper(data.id), course |-> course,
                                         photo |-> NULL])
         IN
    IF r.err # ""
    THEN [db |-> d, resp |-> Resp(500, [error |-> "Failed to create student"]),
          reads |-> TRUE, clear |-> FALSE]
    ELSE [db |-> r.db,
          resp |-> Resp(201, [message |-> "Student created successfully",
                              student |-> upper(data.id)]),
          reads |-> TRUE, clear |-> TRUE]

create_student(d, sess, data, actual_program) ==
    require_auth(sess, d, create_student_json(d, data, actual_program))

\* Student.update_student is called with a keyword it does not accept
update_student_json(d, student_id, data) ==
    IF ~\E s \in d.student : s.id = upper(student_id)
    THEN [db |-> d, resp |-> Resp(404, [error |-> "Student not found"]),
          reads |-> TRUE, clear |-> FALSE]
    ELSE IF data = NoData
    THEN [db |-> d, resp |-> Resp(400, [error |-> "No data provided"]),
          reads |-> TRUE, clear |-> FALSE]
    ELSE LET errors == validate_student_data(d, data, upper(student_id)) IN
    IF errors # <<>>
    THEN [db |-> d, resp |-> Resp(400, [errors |-> errors]),
          reads |-> TRUE, clear |-> FALSE]
    ELSE [db |-> d, resp |-> Resp(500, [error |-> "Failed to update student"]),
          reads |-> TRUE, clear |-> FALSE]

update_student(d, sess, student_id, data) ==
    require_auth(sess, d, update_student_json(d, student_id, data))

\* the handler without its @require_auth line
delete_student_ungated(d, sess, student_id) ==
    IF ~\E s \in d.student : s.id = upper(student_id)
    THEN [db |-> d, resp |-> Resp(404, [error |-> "Student not found"]),
          reads |-> TRUE, clear |-> FALSE]
    ELSE [db |-> sql_delete_student(d, upper(student_id)).db,
          resp |-> Resp(200, [message |-> "Student deleted successfully"]),
          reads |-> TRUE, clear |-> TRUE]
delete_student(d, sess, student_id) ==
    require_auth(sess, d,
        IF ~\E s \in d.student : s.id = upper(student_id)
        THEN [db |-> d, resp |-> Resp(404, [error |-> "Student not found"]),
              reads |-> TRUE, clear |-> FALSE]
        ELSE LET r == sql_delete_student(d, upper(student_id)) IN
             IF r.rows = 0
             THEN [db |-> r.db, resp |-> Resp(404, [error |-> "Student not found"]),
                   reads |-> TRUE, clear |-> FALSE]
             ELSE [db |-> r.db,
                   resp |-> Resp(200, [message |-> "Student deleted successfully"]),
                   reads |-> TRUE, clear |-> TRUE])

\* file_ok: a file was sent, is small enough and has an allowed extension
upload_student_photo(d, sess, student_id, file_ok) ==
    require_auth(sess, d,
        IF ~\E s \in d.student : s.id = upper(student_id)
        THEN [db |-> d, resp |-> Resp(404, [error |-> "Student not found"]),
              reads |-> TRUE, clear |-> FALSE]
        ELSE IF ~file_ok
        THEN [db |-> d, resp |-> Resp(400, [error |-> "No photo file provided"]),
              reads |-> TRUE, clear |-> FALSE]
        ELSE [db |-> sql_update_student(d, upper(student_id), [photo |-> Photo]).db,
              resp |-> Resp(200, [message |-> "Photo uploaded successfully",
                                  filename |-> Photo]),
              reads |-> TRUE, clear |-> FALSE])

\* Student.delete_profile_photo passes no field to update_student, which
\* then writes nothing; removed: whether bucket.remove returned a non-empty
\* response
delete_student_photo(d, sess, student_id, removed) ==
    require_auth(sess, d,
        IF ~\E s \in d.student : s.id = upper(student_id)
        THEN [db |-> d, resp |-> Resp(404, [error |-> "Student not found"]),
              reads |-> TRUE, clear |-> FALSE]
        ELSE IF \E s \in d.student : s.id = upper(student_id) /\ s.photo = NULL
        THEN [db |-> d, resp |-> Resp(400, [error |-> "Student has no profile photo"]),
              reads |-> TRUE, clear |-> FALSE]
        ELSE IF ~removed
        THEN [db |-> d, resp |-> Resp(500, [error |-> "Delete failed: Delete failed"]),
              reads |-> TRUE, clear |-> FALSE]
        ELSE [db |-> d, resp |-> Resp(200, [message |-> "Photo deleted successfully"]),
              reads |-> TRUE, clear |-> FALSE])

get_student_stats(d, sess) ==
    require_auth(sess, d,
        [db |-> d, resp |-> Resp(200, [total_students |-> Cardinality(d.student)]),
         reads |-> TRUE, clear |-> FALSE])

\* --------------------------------------- app/auth (models, controller)
\* flask's session cookie with nothing in it
EmptySession == [x \in {} |-> 0]
Usernames == (1..NumUsers) \X {"name"}
Emails == (1..NumUsers) \X {"mail"}
\* three passwords signup accepts and one it rejects
Passwords == {"Abc12345", "Xyz98765", "Qrs45678", "abc12345"}
\* werkzeug.security.generate_password_hash / check_password_hash
generate_password_hash(password) ==
    <<"pbkdf2", password>>
check_password_hash(password_hash, password) ==
    password_hash = generate_password_hash(password)
\* re.search(r'[A-Z]', password)
has_uppercase(password) ==
    password \in {"Abc12345", "Xyz98765", "Qrs45678"}
\* the users table: rows, and the value of the id SERIAL sequence
EmptyUsers == [rows |-> {}, seq |-> 0]
LoginData ==
    [username : Usernames, password : Passwords \cup {""}] \cup {NoData}
SignupData ==
    [username : Usernames, email : Emails, password : Passwords,
     confirm_password : Passwords]
    \cup {NoData}
\* supabase.auth_verify_user_credentials: the user without the hash, as a
\* set of at most one row
auth_verify_user_credentials(u, username, password) ==
    {[id |-> r.id, username |-> r.username, email |-> r.email] :
        r \in {x \in u.rows : x.username = username
                              /\ check_password_hash(x.password_hash, password)}}

\* the handler keeping a session that is already there
login_keeps_session(u, sess, data) ==
    LET user_data == IF data = NoData \/ blank(data, "username") THEN {}
                     ELSE auth_verify_user_credentials(u, data.username, data.password)
    IN
    IF user_data = {}
    THEN [session |-> sess, resp |-> Resp(401, [error |-> "Invalid username or password"])]
    ELSE LET user == CHOOSE x \in user_data : TRUE IN
         [session |-> IF "user_id" \in DOMAIN sess THEN sess
                      ELSE [user_id |-> user.id, username |-> user.username],
          resp |-> Resp(200, [message |-> "Login successful", user |-> user])]
\* the handler with its session.clear() moved before the checks
login_on_clears(u, sess, data, fault) ==
    IF data = NoData
    THEN [session |-> EmptySession, resp |-> Resp(400, [error |-> "No data provided"])]
    ELSE IF blank(data, "username") \/ data.password = ""
    THEN [session |-> EmptySession,
          resp |-> Resp(400, [errors |->
              (IF blank(data, "username") THEN <<"username is required">> ELSE <<>>)
              \o (IF data.password = "" THEN <<"password is required">> ELSE <<>>)])]
    ELSE LET user_data == IF fault # NoFault THEN {}
                          ELSE auth_verify_user_credentials(u, data.username, data.password) IN
    IF user_data = {}
    THEN [session |-> EmptySession,
          resp |-> Resp(401, [error |-> "Invalid username or password"])]
    ELSE LET user == CHOOSE x \in user_data : TRUE IN
         [session |-> [user_id |-> user.id, username |-> user.username],
          resp |-> Resp(200, [message |-> "Login successful", user |-> user])]

\* fault: what the store does with the SELECT; auth_verify_user_credentials
\* catches the exception and returns None
login_on(u, sess, data, fault) ==
    IF data = NoData
    THEN [session |-> sess, resp |-> Resp(400, [error |-> "No data provided"])]
    ELSE IF blank(data, "username") \/ data.password = ""
    THEN [session |-> sess,
          resp |-> Resp(400, [errors |->
              (IF blank(data, "username") THEN <<"username is required">> ELSE <<>>)
              \o (IF data.password = "" THEN <<"password is required">> ELSE <<>>)])]
    ELSE LET user_data == IF fault # NoFault THEN {}
                          ELSE auth_verify_user_credentials(u, data.username, data.password) IN
    IF user_data = {}
    THEN [session |-> sess,
          resp |-> Resp(401, [error |-> "Invalid username or password"])]
    ELSE LET user == CHOOSE x \in user_data : TRUE IN
         [session |-> [user_id |-> user.id, username |-> user.username],
          resp |-> Resp(200, [message |-> "Login successful", user |-> user])]

login(u, sess, data) ==
    login_on(u, sess, data, NoFault)

logout(sess) ==
    [session |-> EmptySession, resp |-> Resp(200, [message |-> "Logout successful"])]

\* the handler without its session.clear()
status_keeps_session(u, sess) ==
    IF "user_id" \in DOMAIN sess /\ \E r \in u.rows : r.id = sess.user_id
    THEN LET r == CHOOSE x \in u.rows : x.id = sess.user_id IN
         [session |-> sess,
          resp |-> Resp(200, [isAuthenticated |-> TRUE,
                              user |-> [id |-> r.id, username |-> r.username,
                                        email |-> r.email]])]
    ELSE [session |-> sess, resp |-> Resp(200, [isAuthenticated |-> FALSE])]
status(u, sess) ==
    IF "user_id" \notin DOMAIN sess
    THEN [session |-> sess, resp |-> Resp(200, [isAuthenticated |-> FALSE])]
    ELSE LET user_data == {r \in u.rows : r.id = sess.user_id} IN
    IF user_data = {}
    THEN [session |-> EmptySession, resp |-> Resp(200, [isAuthenticated |-> FALSE])]
    ELSE LET r == CHOOSE x \in user_data : TRUE IN
         [session |-> sess,
          resp |-> Resp(200, [isAuthenticated |-> TRUE,
                              user |-> [id |-> r.id, username |-> r.username,
                                        email |-> r.email]])]

\* User.create_user: INSERT INTO users, the id drawn from the sequence
create_user(u, username, email, password) ==
    [rows |-> u.rows \cup {[id |-> u.seq + 1, username |-> username, email |-> email,
                            password_hash |-> generate_password_hash(password)]},
     seq |-> u.seq + 1]

\* username VARCHAR(80) UNIQUE, email VARCHAR(120) UNIQUE: the insert is
\* refused when a row has either, and insert_record then returns None
users_unique_ok(u, username, email) ==
    ~\E r \in u.rows : r.username = username \/ r.email = email

\* the handler without its two lookups
signup_unchecked(u, data) ==
    IF data = NoData
    THEN [users |-> u, resp |-> Resp(400, [error |-> "No data provided"])]
    ELSE IF data.password # data.confirm_password
    THEN [users |-> u, resp |-> Resp(400, [errors |-> <<"Passwords do not match">>])]
    ELSE IF ~has_uppercase(data.password)
    THEN [users |-> u, resp |-> Resp(400, [errors |->
              <<"Password must contain at least one uppercase letter">>])]
    ELSE IF ~users_unique_ok(u, data.username, data.email)
    THEN [users |-> u, resp |-> Resp(500, [error |-> "Failed to create user"])]
    ELSE [users |-> create_user(u, data.username, data.email, data.password),
          resp |-> Resp(201, [message |->
                       "Account created successfully! Please log in with your new credentials.",
                              user |-> u.seq + 1])]

\* the handler without its "if not new_user" test
signup_on_unchecked(u, data, fault) ==
    IF data = NoData
    THEN [users |-> u, resp |-> Resp(400, [error |-> "No data provided"])]
    ELSE IF data.password # data.confirm_password
    THEN [users |-> u, resp |-> Resp(400, [errors |-> <<"Passwords do not match">>])]
    ELSE IF \E r \in u.rows : r.username = data.username
    THEN [users |-> u, resp |-> Resp(400, [errors |->
              <<"Username already exists. Please choose a different username.">>])]
    ELSE IF \E r \in u.rows : r.email = data.email
    THEN [users |-> u, resp |-> Resp(400, [errors |->
              <<"Email already exists. Please use a different email address.">>])]
    ELSE IF ~has_uppercase(data.password)
    THEN [users |-> u, resp |-> Resp(400, [errors |->
              <<"Password must contain at least one uppercase letter">>])]
    ELSE IF fault # NoFault \/ ~users_unique_ok(u, data.username, data.email)
    THEN [users |-> u,
          resp |-> Resp(201, [message |->
                       "Account created successfully! Please log in with your new credentials.",
                              user |-> NULL])]
    ELSE [users |-> create_user(u, data.username, data.email, data.password),
          resp |-> Resp(201, [message |->
                       "Account created successfully! Please log in with your new credentials.",
                              user |-> u.seq + 1])]

\* fault: what the store does with the INSERT; insert_record of the Supabase
\* adapter catches the exception and returns None
signup_on(u, data, fault) ==
    IF data = NoData
    THEN [users |-> u, resp |-> Resp(400, [error |-> "No data provided"])]
    ELSE IF data.password # data.confirm_password
    THEN [users |-> u, resp |-> Resp(400, [errors |-> <<"Passwords do not match">>])]
    ELSE IF \E r \in u.rows : r.username = data.username
    THEN [users |-> u, resp |-> Resp(400, [errors |->
              <<"Username already exists. Please choose a different username.">>])]
    ELSE IF \E r \in u.rows : r.email = data.email
    THEN [users |-> u, resp |-> Resp(400, [errors |->
              <<"Email already exists. Please use a different email address.">>])]
    ELSE IF ~has_uppercase(data.password)
    THEN [users |-> u, resp |-> Resp(400, [errors |->
              <<"Password must contain at least one uppercase letter">>])]
    ELSE IF fault # NoFault \/ ~users_unique_ok(u, data.username, data.email)
    THEN [users |-> u, resp |-> Resp(500, [error |-> "Failed to create user"])]
    ELSE [users |-> create_user(u, data.username, data.email, data.password),
          resp |-> Resp(201, [message |->
                       "Account created successfully! Please log in with your new credentials.",
                              user |-> u.seq + 1])]

signup(u, data) ==
    signup_on(u, data, NoFault)

\* User.delete_user
delete_user(u, user_id) ==
    [u EXCEPT !.rows = {r \in @ : r.id # user_id}]

\* ------------------------------------------- dashboard (Spec, SpecCache)
\* the totals computed from the store
dashboard_totals(d) ==
    [total_students |-> Cardinality(d.student),
     total_programs |-> Cardinality(d.program),
     total_colleges |-> Cardinality(d.college)]
get_dashboard_stats(d) ==
    Resp(200, dashboard_totals(d))
\* Program.get_program_stats as the chart uses it
program_charts(d) ==
    {[program_code |-> p.code,
      student_count |-> Cardinality({s \in d.student : s.course = p.code})] :
        p \in d.program}
\* College.get_college_stats as the chart uses it
college_charts(d) ==
    {[college_code |-> c,
      student_count |-> Cardinality({s \in d.student :
          \E p \in d.program : p.code = s.course /\ p.college = c})] :
        c \in d.college}
\* ------------------------------------------------ aggregates (SpecStats)
\* the two outcomes of a call of a database function through rpc(): it
\* returns its rows, or it raises (the function is not installed)
RpcOutcomes == {"rows", "raises"}
\* count_records("student", "UPPER(course) = %s", [code.upper()]): the REST
\* adapter drops the SQL function and compares the column with the parameter
get_student_count(d, program_code) ==
    Cardinality({s \in d.student : s.course = upper(program_code)})
\* the rows of the database function get_program_stats
rpc_program_stats(d) ==
    {[program_code |-> p.code, college_code |-> p.college,
      student_count |-> Cardinality({s \in d.student : s.course = p.code})] :
        p \in d.program}
\* the list comprehension over the rows, for the rows given
program_stats_of(rows) ==
    {[code |-> item.program_code, college |-> item.college_code,
      student_count |-> item.student_count] : item \in rows}
\* an inner join in place of the outer one: programs without students are left out
get_program_stats_inner(d, rpc) ==
    program_stats_of({item \in rpc_program_stats(d) : item.student_count > 0})
\* Program.get_program_stats
get_program_stats(d, rpc) ==
    IF rpc = "rows"
    THEN program_stats_of(rpc_program_stats(d))
    ELSE {[code |-> program.code, college |-> program.college,
           student_count |-> get_student_count(d, program.code)] :
             program \in d.program}
\* College.get_programs
get_programs(d, college_code) ==
    {p \in d.program : p.college = college_code}
\* student_count += Program.get_student_count(code) over the programs given
RECURSIVE sum_student_counts(_, _)
sum_student_counts(d, programs) ==
    IF programs = {} THEN 0
    ELSE LET program_data == CHOOSE p \in programs : TRUE IN
         get_student_count(d, program_data.code)
         + sum_student_counts(d, programs \ {program_data})
\* the rows of the database function get_college_stats
rpc_college_stats(d) ==
    {[college_code |-> c,
      student_count |-> Cardinality({s \in d.student :
          \E p \in d.program : p.code = s.course /\ p.college = c})] :
        c \in d.college}
\* College.get_college_stats
get_college_stats(d, rpc) ==
    IF rpc = "rows" /\ rpc_college_stats(d) # {}
    THEN rpc_college_stats(d)
    ELSE {[college_code |-> college,
           student_count |-> sum_student_counts(d, get_programs(d, college))] :
             college \in d.college}
\* GET /api/programs/stats of app/routes: "enrollment", a LEFT JOIN
routes_get_program_stats(d) ==
    {[code |-> p.code,
      enrollment |-> Cardinality({s \in d.student : s.course = p.code})] :
        p \in d.program}
\* GET /auth/dashboard/charts. The college part reads col['code'] from rows
\* keyed college_code, which raises as soon as there is a row; its handler
\* then appends to a misspelt list, and the handler of that appends a 0.
get_dashboard_charts(d, rpc) ==
    Resp(200,
         [students_by_program |->
              {[program_code |-> prog.code, student_count |-> prog.student_count] :
                  prog \in get_program_stats(d, rpc)},
          students_by_college |->
              IF get_college_stats(d, rpc) = {} THEN {}
              ELSE {[college_code |-> college, student_count |-> 0] :
                       college \in d.college}])

\* the flask-caching store: key -> value of the entries that are set
EmptyCache == [x \in {} |-> 0]
CacheKeys == {"dashboard_stats", "dashboard_program_charts", "dashboard_college_charts"}
\* the value a miss computes for a key
cache_compute(d, cache_key) ==
    IF cache_key = "dashboard_stats" THEN dashboard_totals(d)
    ELSE IF cache_key = "dashboard_program_charts" THEN program_charts(d)
    ELSE college_charts(d)
\* get_cached_dashboard_stats and its two siblings: value returned, cache after
get_cached(c, d, cache_key) ==
    IF cache_key \in DOMAIN c
    THEN [cache |-> c, value |-> c[cache_key]]
    ELSE LET v == cache_compute(d, cache_key) IN
         [cache |-> [k \in DOMAIN c \cup {cache_key} |->
                        IF k = cache_key THEN v ELSE c[k]],
          value |-> v]
clear_dashboard_cache(c) ==
    [k \in DOMAIN c \ CacheKeys |-> c[k]]

\* ------------------------------------------- app/routes (SpecRoutes)
\* the blueprints run.py registers; they read and write the same tables
\* through db.py, upper-casing every code and comparing it exactly
routes_validate_college_data(d, data, college_code) ==
    LET code == upper(data.code) IN
    (IF blank(data, "code") THEN <<"code is required">> ELSE <<>>)
    \o (IF blank(data, "name") THEN <<"name is required">> ELSE <<>>)
    \o (IF blank(data, "code") THEN <<>>
        ELSE (IF ~code_regex(code)
              THEN <<"College code must be 2-10 characters, letters, numbers, and hyphens only">>
              ELSE <<>>)
             \o (IF code \in d.college /\ (college_code = NULL \/ code # college_code)
                 THEN <<"College code already exists">> ELSE <<>>))
    \o name_errors(data, "College")

routes_create_college(d, data) ==
    IF data = NoData
    THEN [db |-> d, resp |-> Resp(400, [error |-> "No data provided"])]
    ELSE LET errors == routes_validate_college_data(d, data, NULL) IN
    IF errors # <<>>
    THEN [db |-> d, resp |-> Resp(400, [errors |-> errors])]
    ELSE LET r == sql_insert_college(d, upper(data.code), strip(data.name)) IN
    IF r.err # ""
    THEN [db |-> d, resp |-> Resp(500, [error |-> r.err])]
    ELSE [db |-> r.db,
          resp |-> Resp(201, [message |-> "College created successfully",
                              college |-> upper(data.code)])]

routes_delete_college(d, college_code) ==
    LET program_count ==
            Cardinality({p \in d.program : p.college = upper(college_code)})
    IN
    IF upper(college_code) \notin d.college
    THEN [db |-> d, resp |-> Resp(404, [error |-> "College not found"])]
    ELSE IF program_count > 0
    THEN [db |-> d, resp |-> Resp(400, [error |-> "Cannot delete college.",
                                        programs |-> program_count])]
    ELSE LET r == sql_delete_college(d, upper(college_code)) IN
    IF r.rows = 0
    THEN [db |-> r.db, resp |-> Resp(404, [error |-> "College not found"])]
    ELSE [db |-> r.db, resp |-> Resp(200, [message |-> "College deleted successfully"])]

routes_validate_program_data(d, data, program_code) ==
    LET code == upper(data.code) IN
    (IF blank(data, "code") THEN <<"code is required">> ELSE <<>>)
    \o (IF blank(data, "name") THEN <<"name is required">> ELSE <<>>)
    \o (IF blank(data, "college") THEN <<"college is required">> ELSE <<>>)
    \o (IF blank(data, "code") THEN <<>>
        ELSE (IF ~code_regex(code)
              THEN <<"Program code must be 2-10 characters, letters, numbers, and hyphens only">>
              ELSE <<>>)
             \o (IF (\E p \in d.program : p.code = code)
                    /\ (program_code = NULL \/ code # program_code)
                 THEN <<"Program code already exists">> ELSE <<>>))
    \o name_errors(data, "Program")
    \o (IF ~blank(data, "college") /\ upper(data.college) \notin d.college
        THEN <<"Invalid college code">> ELSE <<>>)

routes_create_program(d, data) ==
    IF data = NoData
    THEN [db |-> d, resp |-> Resp(400, [error |-> "No data provided"])]
    ELSE LET errors == routes_validate_program_data(d, data, NULL) IN
    IF errors # <<>>
    THEN [db |-> d, resp |-> Resp(400, [errors |-> errors])]
    ELSE LET r == sql_insert_program(d, [code |-> upper(data.code),
                                         college |-> upper(data.college)])
         IN
    IF r.err # ""
    THEN [db |-> d, resp |-> Resp(500, [error |-> r.err])]
    ELSE [db |-> r.db,
          resp |-> Resp(201, [message |-> "Program created successfully",
                              program |-> upper(data.code)])]

routes_delete_program(d, program_code) ==
    LET hit == {p \in d.program : p.code = upper(program_code)}
        student_count ==
            Cardinality({s \in d.student : s.course = upper(program_code)})
    IN
    IF hit = {}
    THEN [db |-> d, resp |-> Resp(404, [error |-> "Program not found"])]
    ELSE IF student_count > 0
    THEN [db |-> d, resp |-> Resp(400, [error |-> "Cannot delete program.",
                                        students |-> student_count])]
    ELSE LET r == sql_delete_program(d, hit) IN
    IF r.rows = 0
    THEN [db |-> r.db, resp |-> Resp(404, [error |-> "Program not found"])]
    ELSE [db |-> r.db, resp |-> Resp(200, [message |-> "Program deleted successfully"])]

routes_validate_student_data(d, data, student_id) ==
    LET req_err(f) == IF blank(data, f) THEN <<f \o " is required">> ELSE <<>>
        sid == upper(data.id)
    IN  req_err("id") \o req_err("firstname") \o req_err("lastname")
        \o req_err("course")
        \o (IF "year" \notin DOMAIN data \/ data.year = 0
            THEN <<"year is required">> ELSE <<>>)
        \o req_err("gender")
        \o (IF blank(data, "id") THEN <<>>
            ELSE (IF ~code_regex(sid)
                  THEN <<"Student ID must follow format YYYY-NNNN (e.g., 2024-0001)">>
                  ELSE <<>>)
                 \o (IF \E e \in d.student :
                           e.id = sid /\ (student_id = NULL \/ e.id # student_id)
                     THEN <<"Student ID already exists">> ELSE <<>>))
        \o (IF "year" \in DOMAIN data /\ data.year # 0
               /\ (data.year < 1 \/ data.year > 6)
            THEN <<"Year must be between 1 and 6">> ELSE <<>>)
        \o (IF ~blank(data, "gender")
               /\ data.gender \notin {"male", "female", "non-binary",
                                      "prefer not to say", "other"}
            THEN <<"Gender must be Male, Female, Non-binary, Prefer not to say, or Other">>
            ELSE <<>>)
        \o (IF ~blank(data, "course")
               /\ ~\E p \in d.program : p.code = upper(data.course)
            THEN <<"Invalid program code">> ELSE <<>>)

routes_create_student(d, data) ==
    IF data = NoData
    THEN [db |-> d, resp |-> Resp(400, [error |-> "No data provided"])]
    ELSE LET errors == routes_validate_student_data(d, data, NULL) IN
    IF errors # <<>>
    THEN [db |-> d, resp |-> Resp(400, [errors |-> errors])]
    ELSE LET r == sql_insert_student(d, [id |-> upper(data.id),
                                         course |-> upper(data.course),
                                         photo |-> NULL])
         IN
    IF r.err # ""
    THEN [db |-> d, resp |-> Resp(500, [error |-> r.err])]
    ELSE [db |-> r.db,
          resp |-> Resp(201, [message |-> "Student created successfully",
                              student |-> upper(data.id)])]

routes_delete_student(d, student_id) ==
    IF ~\E s \in d.student : s.id = upper(student_id)
    THEN [db |-> d, resp |-> Resp(404, [error |-> "Student not found"])]
    ELSE LET r == sql_delete_student(d, upper(student_id)) IN
    IF r.rows = 0
    THEN [db |-> r.db, resp |-> Resp(404, [error |-> "Student not found"])]
    ELSE [db |-> r.db, resp |-> Resp(200, [message |-> "Student deleted successfully"])]

\* ------------------------------------------------------------------ state
\* db: the committed rows of the three tables; session: the client's flask
\* session; users: the users table; cache: the dashboard cache; txn: the
\* rename transaction in flight, if any; lastLogin: the id of the user of the
\* last successful login, 0 once a logout followed it
VARIABLES db, session, users, cache, txn, lastLogin

vars == <<db, session, users, cache, txn, lastLogin>>

NoTxn == [open |-> FALSE]
NoLogin == 0 - 1

Init ==
    /\ db = EmptyDb
    /\ session = EmptySession
    /\ users = EmptyUsers
    /\ cache = EmptyCache
    /\ txn = NoTxn
    /\ lastLogin = NoLogin

\* a request to the store handled from its first statement to its reply;
\* clr: the handler called clear_dashboard_cache
Handled(out, clr) ==
    /\ db' = out.db
    /\ cache' = IF clr THEN clear_dashboard_cache(cache) ELSE cache
    /\ UNCHANGED <<session, users, txn, lastLogin>>

CreateCollege ==
    \E data \in CollegeData :
        Handled(create_college(db, data), FALSE)

UpdateCollege ==
    \E path \in CollegePaths, data \in CollegeData :
        Handled(update_college(db, path, data), FALSE)

DeleteCollege ==
    \E path \in CollegePaths :
        Handled(delete_college(db, path), FALSE)

CreateProgram ==
    \E data \in ProgramData :
        \E existing \in existing_for(db, data) :
            Handled(create_program(db, data, existing), FALSE)

UpdateProgram ==
    \E path \in ProgramPaths, data \in ProgramData :
        \E existing_program \in get_one(programs_upper(db, upper(path))),
           existing \in existing_for(db, data) :
            Handled(update_program(db, path, data, existing_program, existing), FALSE)

DeleteProgram ==
    \E path \in ProgramPaths :
        Handled(delete_program(db, path), FALSE)

\* the rows get_valid_programs() may hold for a body's course
actual_program_for(d, data) ==
    get_one(IF blank(data, "course") THEN {}
            ELSE programs_upper(d, upper(data.course)))

\* a request to a gated student endpoint
HandledStudent(out) ==
    Handled(out, out.clear)

GetStudents ==
    HandledStudent(get_students(db, session))

GetStudent ==
    \E path \in StudentIds :
        HandledStudent(get_student(db, session, path))

CreateStudent ==
    \E data \in StudentData :
        \E actual_program \in actual_program_for(db, data) :
            HandledStudent(create_student(db, session, data, actual_program))

UpdateStudent ==
    \E path \in StudentIds, data \in StudentData :
        HandledStudent(update_student(db, session, path, data))

DeleteStudent ==
    \E path \in StudentIds :
        HandledStudent(delete_student(db, session, path))

UploadStudentPhoto ==
    \E path \in StudentIds, file_ok \in BOOLEAN :
        HandledStudent(upload_student_photo(db, session, path, file_ok))

DeleteStudentPhoto ==
    \E path \in StudentIds :
        \E removed \in BOOLEAN :
            HandledStudent(delete_student_photo(db, session, path, removed))

GetStudentStats ==
    HandledStudent(get_student_stats(db, session))

\* a request to the auth blueprint
HandledAuth(out_session, out_users, login_id) ==
    /\ session' = out_session
    /\ users' = out_users
    /\ lastLogin' = login_id
    /\ UNCHANGED <<db, cache, txn>>

SignupOf(inputs) ==
    \E data \in inputs :
        LET out == signup(users, data) IN
        /\ out.users.seq <= NumUsers
        /\ HandledAuth(session, out.users, lastLogin)

LoginOf(inputs) ==
    \E data \in inputs :
        LET out == login(users, session, data) IN
        HandledAuth(out.session, users,
                    IF out.resp.status = 200 THEN out.resp.body.user.id ELSE lastLogin)

Signup ==
    SignupOf(SignupData)

Login ==
    LoginOf(LoginData)

Logout ==
    HandledAuth(logout(session).session, users, 0)

Status ==
    HandledAuth(status(users, session).session, users, lastLogin)

\* the one account the store scenarios sign up and log in with
AdminSignupData ==
    {[username |-> <<1, "name">>, email |-> <<1, "mail">>,
      password |-> "Abc12345", confirm_password |-> "Abc12345"]}
AdminLoginData ==
    {[username |-> <<1, "name">>, password |-> "Abc12345"]}
AdminSignup ==
    SignupOf(AdminSignupData)
AdminLogin ==
    LoginOf(AdminLoginData)

\* the wired application's writes to the three tables, one request at a
\* time, by the one account
Next ==
    \/ CreateCollege \/ UpdateCollege \/ DeleteCollege
    \/ CreateProgram \/ UpdateProgram \/ DeleteProgram
    \/ CreateStudent \/ UpdateStudent \/ DeleteStudent
    \/ AdminSignup \/ AdminLogin

Spec == Init /\ [][Next]_vars

\* the student blueprint called with and without a session
NextGate ==
    \/ CreateCollege \/ CreateProgram
    \/ GetStudents \/ GetStudent \/ CreateStudent \/ UpdateStudent
    \/ DeleteStudent \/ UploadStudentPhoto \/ DeleteStudentPhoto
    \/ GetStudentStats
    \/ AdminSignup \/ AdminLogin \/ Logout

SpecGate == Init /\ [][NextGate]_vars

\* an account removed from the users table
DeleteUser ==
    \E user_id \in UserIds :
        HandledAuth(session, delete_user(users, user_id), lastLogin)

\* one client signing up, logging in and out and asking for its status
NextAuth ==
    Signup \/ Login \/ Logout \/ Status

SpecAuth == Init /\ [][NextAuth]_vars

\* the same client while accounts are also removed
NextStale ==
    Signup \/ Login \/ Logout \/ Status \/ DeleteUser

SpecStale == Init /\ [][NextStale]_vars

\* ---------------------------------------------- the rename, by statement
\* DatabaseManager keeps one connection for the whole process, so the
\* statements of every request served by a thread of the process run in
\* that connection's one transaction, and a commit by any of them commits
\* all of it. The student model goes through the REST client instead and
\* commits on its own. txn is the rename in flight: its position, the
\* transaction to run, the first SELECT's count, the committed store when
\* the request arrived, whether its UPDATE is still uncommitted, and the
\* store as the connection sees it.

\* the run of update_program up to and including its first SELECT
BeginUpdateProgram ==
    /\ ~txn.open
    /\ \E path \in ProgramPaths, data \in ProgramData :
          \E existing_program \in get_one(programs_upper(db, upper(path))),
             existing \in existing_for(db, data) :
              LET t == update_program_check(db, path, data, existing_program, existing) IN
              /\ ~t.done
              /\ t.code_changed
              /\ txn' = [open |-> TRUE, pc |-> "selected", t |-> t,
                         affected |-> affected_students(db, t.old_code),
                         before |-> db, pending |-> FALSE, work |-> db]
    /\ UNCHANGED <<db, session, users, cache, lastLogin>>

\* its UPDATE statement; an error leaves the with-block through rollback
UpdateProgramStatement ==
    /\ txn.open /\ txn.pc = "selected"
    /\ LET r == update_program_statement(db, txn.t) IN
       txn' = IF r.err # "" THEN NoTxn
              ELSE [txn EXCEPT !.pc = "updated", !.pending = TRUE, !.work = r.db]
    /\ UNCHANGED <<db, session, users, cache, lastLogin>>

\* the store the rename's connection reads
ConnDb ==
    IF txn.open /\ txn.pending THEN txn.work ELSE db

\* the second SELECT, the comparison, and the exit of the with-block
finish_update_program(committed, conn, t, affected, pending) ==
    IF update_program_mismatch(conn, t, affected)
    THEN [db |-> committed, resp |-> RolledBack]
    ELSE [db |-> IF pending THEN get_cursor(TRUE, committed, conn, FALSE, FALSE)
                 ELSE committed,
          resp |-> Renamed(affected)]

FinishUpdateProgram ==
    /\ txn.open /\ txn.pc = "updated"
    /\ db' = finish_update_program(db, ConnDb, txn.t, txn.affected, txn.pending).db
    /\ txn' = NoTxn
    /\ UNCHANGED <<session, users, cache, lastLogin>>

\* a request of another thread deleting a college through the same
\* connection while the rename's UPDATE is uncommitted: its commit commits
\* the UPDATE as well
DeleteCollegeShared ==
    /\ txn.open /\ txn.pc = "updated" /\ txn.pending
    /\ \E path \in CollegePaths :
          LET out == delete_college(ConnDb, path) IN
          /\ out.resp.status = 200
          /\ db' = out.db
          /\ txn' = [txn EXCEPT !.pending = FALSE, !.work = out.db]
    /\ UNCHANGED <<session, users, cache, lastLogin>>

\* a student request while no UPDATE of the rename holds row locks
CreateStudentRest ==
    /\ ~(txn.open /\ txn.pending)
    /\ CreateStudent

DeleteStudentRest ==
    /\ ~(txn.open /\ txn.pending)
    /\ DeleteStudent

\* a request through the connection while no rename is in flight
WhenIdle(A) ==
    ~txn.open /\ A

NextTxn ==
    \/ WhenIdle(CreateCollege) \/ WhenIdle(CreateProgram)
    \/ WhenIdle(AdminSignup) \/ WhenIdle(AdminLogin)
    \/ CreateStudentRest \/ DeleteStudentRest
    \/ BeginUpdateProgram \/ UpdateProgramStatement \/ FinishUpdateProgram
    \/ DeleteCollegeShared

SpecTxn == Init /\ [][NextTxn]_vars

\* ------------------------------------ two creates of one code, by statement
\* Two POST /api/colleges with the same body, served by two threads of the
\* process, both past validate_college_data before either inserts. txn is the
\* pair in flight: the body, where each request stands, what each has
\* answered (0: nothing yet), and whether an INSERT is uncommitted in the
\* transaction of the one connection.
Requests == {1, 2}

BeginCreateRace ==
    /\ ~txn.open
    /\ \E data \in CollegeData \ {NoData} :
          /\ validate_college_data(db, data, NULL, FALSE) = <<>>
          /\ txn' = [open |-> TRUE, pc |-> "race", data |-> data,
                     at |-> [r \in Requests |-> "validated"],
                     status |-> [r \in Requests |-> 0],
                     pending |-> FALSE]
    /\ UNCHANGED <<db, session, users, cache, lastLogin>>

\* cursor.execute(INSERT ...) of insert_record: the statement sees the
\* uncommitted row of the other request, and the unique violation leaves the
\* with-block through conn.rollback(), which undoes that row too
InsertStatement ==
    /\ txn.open /\ txn.pc = "race"
    /\ \E r \in Requests :
          /\ txn.at[r] = "validated"
          /\ txn' = IF txn.pending \/ upper(txn.data.code) \in db.college
                    THEN [txn EXCEPT !.at[r] = "done", !.status[r] = 500,
                                     !.pending = FALSE]
                    ELSE [txn EXCEPT !.at[r] = "executed", !.pending = TRUE]
    /\ UNCHANGED <<db, session, users, cache, lastLogin>>

\* the exit of the with-block: conn.commit(), then the 201 with the row that
\* RETURNING * gave
CommitInsert ==
    /\ txn.open /\ txn.pc = "race"
    /\ \E r \in Requests :
          /\ txn.at[r] = "executed"
          /\ db' = IF txn.pending
                   THEN sql_insert_college(db, upper(txn.data.code),
                                           strip(txn.data.name)).db
                   ELSE db
          /\ txn' = [txn EXCEPT !.at[r] = "done", !.status[r] = 201,
                                !.pending = FALSE]
    /\ UNCHANGED <<session, users, cache, lastLogin>>

\* both requests answered
EndRace ==
    /\ txn.open /\ txn.pc = "race"
    /\ \A r \in Requests : txn.at[r] = "done"
    /\ txn' = NoTxn
    /\ UNCHANGED <<db, session, users, cache, lastLogin>>

NextRace ==
    \/ WhenIdle(CreateCollege) \/ WhenIdle(DeleteCollege)
    \/ WhenIdle(CreateProgram)
    \/ WhenIdle(AdminSignup) \/ WhenIdle(AdminLogin)
    \/ WhenIdle(CreateStudent)
    \/ BeginCreateRace \/ InsertStatement \/ CommitInsert \/ EndRace

SpecRace == Init /\ [][NextRace]_vars

\* ------------------------------------------- the connection after an error
\* The transaction status of the one connection: "idle" (no statement has
\* failed since the last commit or rollback) or "aborted" (a statement has
\* failed and nothing has rolled back; the server refuses every statement).
\* get_cursor: the status when the with-block is left. A statement run on an
\* aborted transaction raises as well; conn.rollback() is called only under
\* commit=True.
conn_after(tx_status, commit, raises) ==
    IF raises \/ tx_status = "aborted"
    THEN (IF commit THEN "idle" ELSE "aborted")
    ELSE "idle"

InitConn ==
    /\ db = EmptyDb
    /\ session = EmptySession
    /\ users = EmptyUsers
    /\ cache = EmptyCache
    /\ lastLogin = NoLogin
    /\ txn = [open |-> FALSE, pc |-> "idle"]

\* one with-block of get_cursor around a statement that raises or not:
\* execute_query and execute_single pass commit=False, insert_record,
\* update_record and delete_record commit=True
Statement ==
    /\ \E commit \in BOOLEAN, raises \in BOOLEAN :
          txn' = [txn EXCEPT !.pc = conn_after(txn.pc, commit, raises)]
    /\ UNCHANGED <<db, session, users, cache, lastLogin>>

\* a college or program request, whose first statement is a SELECT through
\* the connection, gets past it only on a transaction that is not aborted
ConnUsable(A) ==
    txn.pc # "aborted" /\ A

NextConn ==
    \/ ConnUsable(CreateCollege) \/ ConnUsable(DeleteCollege)
    \/ ConnUsable(CreateProgram) \/ ConnUsable(DeleteProgram)
    \/ AdminSignup \/ AdminLogin \/ CreateStudent \/ DeleteStudent
    \/ Statement

SpecConn == InitConn /\ [][NextConn]_vars

\* ------------------------------------------- the routes of run.py
RoutesCreateCollege ==
    \E data \in CollegeData :
        Handled(routes_create_college(db, data), FALSE)

RoutesDeleteCollege ==
    \E path \in CollegePaths :
        Handled(routes_delete_college(db, path), FALSE)

RoutesCreateProgram ==
    \E data \in ProgramData :
        Handled(routes_create_program(db, data), FALSE)

RoutesDeleteProgram ==
    \E path \in ProgramPaths :
        Handled(routes_delete_program(db, path), FALSE)

RoutesCreateStudent ==
    \E data \in StudentData :
        Handled(routes_create_student(db, data), FALSE)

RoutesDeleteStudent ==
    \E path \in StudentIds :
        Handled(routes_delete_student(db, path), FALSE)

\* the one database written through both sets of routes
NextRoutes ==
    \/ RoutesCreateCollege \/ RoutesDeleteCollege
    \/ RoutesCreateProgram \/ RoutesDeleteProgram
    \/ RoutesCreateStudent \/ RoutesDeleteStudent
    \/ CreateProgram \/ DeleteCollege \/ DeleteProgram

SpecRoutes == Init /\ [][NextRoutes]_vars

\* ------------------------------------------- the dashboard and its cache
\* GET /auth/dashboard: counted from the store, nothing kept
GetDashboardStats ==
    /\ get_dashboard_stats(db).status = 200
    /\ UNCHANGED vars

\* a read through get_cached_dashboard_stats or one of its two siblings
GetCached ==
    \E cache_key \in CacheKeys :
        /\ cache' = get_cached(cache, db, cache_key).cache
        /\ UNCHANGED <<db, session, users, txn, lastLogin>>

\* an entry reaching its timeout
CacheExpire ==
    \E cache_key \in DOMAIN cache :
        /\ cache' = [k \in DOMAIN cache \ {cache_key} |-> cache[k]]
        /\ UNCHANGED <<db, session, users, txn, lastLogin>>

NextCache ==
    \/ CreateCollege \/ DeleteCollege
    \/ CreateProgram \/ DeleteProgram
    \/ CreateStudent \/ DeleteStudent
    \/ AdminSignup \/ AdminLogin
    \/ GetDashboardStats \/ GetCached \/ CacheExpire

SpecCache == Init /\ [][NextCache]_vars

\* ------------------------------------ the cached read, by statement
\* get_cached_dashboard_stats and its siblings read the cache, count the
\* rows and set the entry in three separate steps; requests served by other
\* threads of the process run between them. txn is then the read in flight:
\* the key it missed and the value it computed.

\* cache.set(cache_key, value, timeout=600)
cache_set(c, cache_key, value) ==
    [k \in DOMAIN c \cup {cache_key} |-> IF k = cache_key THEN value ELSE c[k]]

\* cache.get misses and the value is computed from the store
BeginGetCached ==
    /\ ~txn.open
    /\ \E cache_key \in CacheKeys :
          /\ cache_key \notin DOMAIN cache
          /\ txn' = [open |-> TRUE, pc |-> "computed", cache_key |-> cache_key,
                     value |-> cache_compute(db, cache_key)]
    /\ UNCHANGED <<db, session, users, cache, lastLogin>>

\* cache.set with the value computed earlier
FinishGetCached ==
    /\ txn.open /\ txn.pc = "computed"
    /\ cache' = cache_set(cache, txn.cache_key, txn.value)
    /\ txn' = NoTxn
    /\ UNCHANGED <<db, session, users, lastLogin>>

\* the student writes, each followed by clear_dashboard_cache, run at any
\* time; the college and program writes run while no read is in flight
NextCacheRace ==
    \/ WhenIdle(CreateCollege) \/ WhenIdle(CreateProgram)
    \/ WhenIdle(AdminSignup) \/ WhenIdle(AdminLogin)
    \/ CreateStudent \/ DeleteStudent
    \/ BeginGetCached \/ FinishGetCached

SpecCacheRace == Init /\ [][NextCacheRace]_vars

\* ------------------------------------------- the store the aggregates read
\* GET /auth/dashboard/charts, which keeps nothing
GetDashboardCharts ==
    /\ \E rpc \in RpcOutcomes : get_dashboard_charts(db, rpc).status = 200
    /\ UNCHANGED vars

NextStats ==
    \/ CreateCollege \/ DeleteCollege
    \/ CreateProgram \/ DeleteProgram
    \/ CreateStudent \/ DeleteStudent
    \/ AdminSignup \/ AdminLogin
    \/ GetDashboardCharts

SpecStats == Init /\ [][NextStats]_vars

\* ------------------------------------------------- a store that may fail
Faults == StoreFaults \cup {NoFault}

CreateCollegeOn ==
    \E data \in CollegeData, fault \in Faults :
        Handled(create_college_on(db, data, fault), FALSE)

GetCollegesOn ==
    \E fault \in Faults :
        Handled(get_colleges_on(db, fault), FALSE)

GetStudentsOn ==
    \E fault \in Faults :
        HandledStudent(get_students_on(db, session, fault))

SignupOn ==
    \E data \in SignupData, fault \in Faults :
        LET out == signup_on(users, data, fault) IN
        /\ out.users.seq <= NumUsers
        /\ HandledAuth(session, out.users, lastLogin)

LoginOn ==
    \E data \in LoginData, fault \in Faults :
        LET out == login_on(users, session, data, fault) IN
        HandledAuth(out.session, users,
                    IF out.resp.status = 200 THEN out.resp.body.user.id ELSE lastLogin)

NextFault ==
    \/ CreateCollegeOn \/ DeleteCollege \/ GetCollegesOn
    \/ SignupOn \/ LoginOn \/ Logout \/ DeleteUser
    \/ GetStudentsOn

SpecFault == Init /\ [][NextFault]_vars

\* ------------------------------------------------------- sorting of lists
\* the orders in which a SELECT without ORDER BY may return the rows S
Perms(S) ==
    {f \in [1..Cardinality(S) -> S] : \A i, j \in DOMAIN f : f[i] = f[j] => i = j}
\* the place of a code or an id in the collation: by number, upper before lower
code_key(c) ==
    2 * c[1] + (IF c[2] = "lo" THEN 1 ELSE 0)
\* the rows S ordered by key, descending when reverse
sorted_by(S, key, reverse) ==
    CHOOSE f \in Perms(S) :
        \A i, j \in DOMAIN f :
            i < j => IF reverse THEN key[f[i]] > key[f[j]] ELSE key[f[i]] < key[f[j]]
OrderArgs == {"asc", "desc"}
\* get_colleges: ORDER BY code <direction> for sort=code, code ASC otherwise
order_colleges(d, sort, order) ==
    LET key == [c \in d.college |-> code_key(c)] IN
    sorted_by(d.college, key, sort = "key" /\ order = "desc")
\* get_programs: ORDER BY p.code <direction> for sort=code, p.code ASC otherwise
order_programs(d, sort, order) ==
    LET key == [p \in d.program |-> code_key(p.code)] IN
    sorted_by(d.program, key, sort = "key" /\ order = "desc")
\* get_students: the list of Student.get_all_students() in the order the store
\* returned it, sorted in memory only under a whitelisted sort
order_students(d, sort, order, store_order) ==
    LET key == [x \in d.student |-> code_key(x.id)] IN
    IF sort = "key" THEN sorted_by(d.student, key, order = "desc")
    ELSE store_order

\* ------------------------------------------------------ search of students
\* text as a sequence of characters
MaxTermLen == 3
Alphabet == {"a", "n", " ", "c", "C", "2"}
SearchTerms ==
    UNION {[1..n -> Alphabet] : n \in 0..MaxTermLen}
\* str.lower()
lower_char(c) ==
    IF c = "A" THEN "a" ELSE IF c = "C" THEN "c" ELSE IF c = "S" THEN "s" ELSE c
lower(t) ==
    [i \in DOMAIN t |-> lower_char(t[i])]
\* t in u
is_in(t, u) ==
    \E i \in 0..(Len(u) - Len(t)) : SubSeq(u, i + 1, i + Len(t)) = t
\* the rows searched; a field that is None is read as '' by (s.get(f) or ''),
\* the empty text here
SearchedStudents ==
    {[id |-> <<"2", "0", "2", "4">>, firstname |-> <<"A", "n">>,
      lastname |-> <<"C", "a">>, course |-> <<"C", "S">>],
     [id |-> <<"2", "0", "2", "2">>, firstname |-> <<"n", "a">>,
      lastname |-> <<"A", "n">>, course |-> <<>>]}
\* the test of the filter_field == "all" branch, for a search that is not empty
matches_all(x, search) ==
    LET search_term == lower(search) IN
    \/ is_in(search_term, lower(x.id))
    \/ is_in(search_term, lower(x.firstname))
    \/ is_in(search_term, lower(x.lastname))
    \/ is_in(search_term, lower(x.firstname \o <<" ">> \o x.lastname))
    \/ is_in(search_term, lower(x.course))
\* whether the row is kept by "if search:" and the list comprehension
search_keeps(x, search) ==
    search = <<>> \/ matches_all(x, search)

\* a search in flight: one row of the list and the search argument
InitSearch ==
    /\ db = EmptyDb
    /\ session = EmptySession
    /\ users = EmptyUsers
    /\ cache = EmptyCache
    /\ lastLogin = NoLogin
    /\ txn \in [open : {FALSE}, pc : {"searching"}, student : SearchedStudents,
                search : SearchTerms]

SearchStudents ==
    /\ txn.pc = "searching"
    /\ txn' = [open |-> FALSE, pc |-> "searched", student |-> txn.student,
               search |-> txn.search,
               kept |-> search_keeps(txn.student, txn.search)]
    /\ UNCHANGED <<db, session, users, cache, lastLogin>>

SpecSearch == InitSearch /\ [][SearchStudents]_vars

\* ------------------------------------------------------------ pagination
\* the largest number of rows a list request finds
MaxTotal == 102
MAX_PAGE_SIZE == 100
\* the per_page arguments request.args.get(..., type=int) hands over
PerPageArgs == {0 - 1, 0, 1, 2, 3, 10, MAX_PAGE_SIZE, MAX_PAGE_SIZE + 1}
min(a, b) ==
    IF a <= b THEN a ELSE b
\* Python's a // b, which rounds towards minus infinity; b # 0
floordiv(a, b) ==
    IF b > 0 THEN a \div b ELSE (0 - a) \div (0 - b)
\* (total + per_page - 1) // per_page if total > 0 else 0
pages_of(total, per_page) ==
    IF total > 0 THEN floordiv(total + per_page - 1, per_page) ELSE 0
\* the page arguments request.args.get("page", 1, type=int) hands over
PageArgs == {0 - 1, 0, 1, 2, 3}
\* the position a slice bound i stands for in a list of n rows
slice_index(n, i) ==
    IF i < 0 THEN (IF n + i < 0 THEN 0 ELSE n + i)
    ELSE IF i > n THEN n ELSE i
\* students[start:end], as the positions 1..n of the rows it keeps
py_slice(n, start, end) ==
    LET s == slice_index(n, start)
        e == slice_index(n, end)
    IN  IF s < e THEN [k \in 1..(e - s) |-> s + k] ELSE <<>>
\* the reply get_students builds for a filtered, sorted list of total rows;
\* the division by a per_page of 0 raises inside the try block
get_students_page(total, page, per_page_arg) ==
    LET per_page == min(per_page_arg, MAX_PAGE_SIZE)
        start == (page - 1) * per_page
        end == start + per_page
    IN
    IF total > 0 /\ per_page = 0
    THEN Resp(500, [error |-> "Failed to fetch students"])
    ELSE Resp(200, [items |-> py_slice(total, start, end), total |-> total,
                    page |-> page, pages |-> pages_of(total, per_page)])
\* the dictionary paginate_query returns; its except clause reports no rows
paginate_query(total, per_page) ==
    IF total > 0 /\ per_page = 0
    THEN [total |-> 0, per_page |-> per_page, pages |-> 0]
    ELSE [total |-> total, per_page |-> per_page, pages |-> pages_of(total, per_page)]

\* a list request in flight: the number of rows left after filtering and the
\* per_page argument of the query string
InitPages ==
    /\ db = EmptyDb
    /\ session = EmptySession
    /\ users = EmptyUsers
    /\ cache = EmptyCache
    /\ lastLogin = NoLogin
    /\ txn \in [open : {FALSE}, pc : {"listing"}, total : 0..MaxTotal,
                page : PageArgs, per_page : PerPageArgs]

GetStudentsPage ==
    /\ txn.pc = "listing"
    /\ txn' = [open |-> FALSE, pc |-> "replied", total |-> txn.total,
               page |-> txn.page, per_page |-> txn.per_page,
               resp |-> get_students_page(txn.total, txn.page, txn.per_page)]
    /\ UNCHANGED <<db, session, users, cache, lastLogin>>

PaginateQuery ==
    /\ txn.pc = "listing"
    /\ txn' = [open |-> FALSE, pc |-> "paginated", total |-> txn.total,
               page |-> txn.page, per_page |-> txn.per_page,
               result |-> paginate_query(txn.total, txn.per_page)]
    /\ UNCHANGED <<db, session, users, cache, lastLogin>>

NextPages ==
    GetStudentsPage \/ PaginateQuery

SpecPages == InitPages /\ [][NextPages]_vars

\* ----------------------------------------------------------------- claims
\* the students of d whose course is code
enrolled(d, code) ==
    {s.id : s \in {x \in d.student : x.course = code}}
\* the course of the student with this id in d
course_of(d, id) ==
    (CHOOSE s \in d.student : s.id = id).course

\* C1: after a successful PUT /programs/{old} whose body carries a code
\* other than the program's stored code old, every student whose course
\* was old has the body's code as course, no student has course old, and
\* no other student's course has changed.
C1_RenameCascades ==
    \A path \in ProgramPaths, data \in ProgramData :
        \A existing_program \in get_one(programs_upper(db, upper(path))),
           existing \in existing_for(db, data) :
            LET out == update_program(db, path, data, existing_program, existing) IN
            \A p \in existing_program :
                (out.resp.status = 200 /\ "code" \in DOMAIN data /\ data.code # p.code)
                => /\ \A id \in enrolled(db, p.code) : course_of(out.db, id) = data.code
                   /\ enrolled(out.db, p.code) = {}
                   /\ \A s \in db.student :
                          s.course # p.code => course_of(out.db, s.id) = s.course

\* C3: a PUT /programs/{code} on an existing program whose body carries a
\* code that another program uses, letter case ignored, is answered 400
\* and leaves every program row and every student row as it was.
C3_ConflictRejected ==
    \A path \in ProgramPaths, data \in ProgramData :
        \A existing_program \in get_one(programs_upper(db, upper(path))),
           existing \in existing_for(db, data) :
            LET out == update_program(db, path, data, existing_program, existing) IN
            \A p \in existing_program :
                ("code" \in DOMAIN data
                 /\ \E q \in db.program :
                        q # p /\ upper(q.code) = upper(data.code))
                => (out.resp.status = 400 /\ out.db = db)

\* a store where a rename onto another program's code, typed in the other
\* letter case, is sent while a student is enrolled
C3_Witness ==
    /\ db.student # {}
    /\ \E p, q \in db.program, data \in ProgramData :
          /\ p # q /\ "code" \in DOMAIN data
          /\ data.code # q.code /\ upper(data.code) = upper(q.code)
          /\ \E path \in ProgramPaths : upper(path) = upper(p.code)
          /\ \E s \in db.student : s.course = p.code

Rejected(d, out) ==
    /\ out.resp.status = 401
    /\ DOMAIN out.resp.body = {"error"}
    /\ out.db = d
    /\ ~out.reads
    /\ ~out.clear

\* C7: with no user_id in the session, every gated student endpoint (list,
\* get, create, update, delete, photo upload, photo delete, stats) answers
\* 401 with an error body and neither reads nor changes a student row.
C7_GateRejects ==
    "user_id" \notin DOMAIN session =>
        /\ Rejected(db, get_students(db, session))
        /\ Rejected(db, get_student_stats(db, session))
        /\ \A path \in StudentIds :
              /\ Rejected(db, get_student(db, session, path))
              /\ Rejected(db, delete_student(db, session, path))
              /\ \A removed \in BOOLEAN :
                    Rejected(db, delete_student_photo(db, session, path, removed))
              /\ \A file_ok \in BOOLEAN :
                    Rejected(db, upload_student_photo(db, session, path, file_ok))
              /\ \A data \in StudentData :
                    Rejected(db, update_student(db, session, path, data))
        /\ \A data \in StudentData :
              \A actual_program \in actual_program_for(db, data) :
                  Rejected(db, create_student(db, session, data, actual_program))

\* logged out again, with a student row and a photo in the store
C7_Witness ==
    /\ "user_id" \notin DOMAIN session
    /\ lastLogin = 0
    /\ \E s \in db.student : s.photo # NULL

\* C6: in any sequence of login, logout and status calls of one session, a
\* status call made after a login with correct credentials reports
\* isAuthenticated true with the id of the user who logged in, and one made
\* after a logout reports isAuthenticated false.
C6_StatusFollowsLogin ==
    LET out == status(users, session) IN
    /\ lastLogin > 0 =>
          /\ out.resp.status = 200
          /\ out.resp.body.isAuthenticated
          /\ out.resp.body.user.id = lastLogin
    /\ lastLogin = 0 =>
          /\ out.resp.status = 200
          /\ ~out.resp.body.isAuthenticated

\* the second account logged in over the session of the first
C6_Witness ==
    /\ lastLogin = 2
    /\ "user_id" \in DOMAIN session /\ session.user_id = 2
    /\ Cardinality(users.rows) = 2

\* C8: /auth/status answers 200 whatever the session holds; with no user_id
\* in the session, or with a user_id that matches no user, it reports
\* isAuthenticated false, and in the second case it leaves the session
\* empty, so that a later status call reports false as well.
C8_StatusNeverErrors ==
    LET out == status(users, session)
        stale == "user_id" \in DOMAIN session
                 /\ ~\E r \in users.rows : r.id = session.user_id
    IN
    /\ out.resp.status = 200
    /\ ("user_id" \notin DOMAIN session \/ stale) => ~out.resp.body.isAuthenticated
    /\ stale =>
          /\ out.session = EmptySession
          /\ \A later \in SUBSET users.rows :
                ~status([users EXCEPT !.rows = later], out.session).resp.body.isAuthenticated

\* a session whose account has been removed
C8_Witness ==
    /\ "user_id" \in DOMAIN session
    /\ ~\E r \in users.rows : r.id = session.user_id
    /\ users.rows # {}

\* C2: when a rename finds, after its UPDATE, a number of students with the
\* new code other than the number that had the old code before it, the
\* reply names the transaction as rolled back and nothing of the rename is
\* committed: the program keeps its old code and no student's course has
\* changed since the request arrived.
C2_MismatchRollsBack ==
    [][(txn.open /\ txn.pc = "updated" /\ ~txn'.open
        /\ update_program_mismatch(ConnDb, txn.t, txn.affected))
       => /\ finish_update_program(db, ConnDb, txn.t, txn.affected, txn.pending).resp
               = RolledBack
          /\ \E p \in db'.program : p.code = txn.t.old_code
          /\ \A s \in db'.student : \A b \in txn.before.student :
                 b.id = s.id => b.course = s.course]_vars

\* the programs of a college and the students of a program, by exact code
programs_of(d, code) ==
    {p \in d.program : p.college = code}

\* a delete of a parent row was carried out with SET NULL: the reply is 200,
\* the parent is gone, every row is still there, and each child of the
\* parent now holds NULL
set_null_college(d, out, code) ==
    /\ out.resp.status = 200
    /\ code \notin out.db.college
    /\ out.db.student = d.student
    /\ out.db.program =
          {IF p.college = code THEN [p EXCEPT !.college = NULL] ELSE p :
              p \in d.program}

set_null_program(d, out, code) ==
    /\ out.resp.status = 200
    /\ ~\E p \in out.db.program : p.code = code
    /\ out.db.college = d.college
    /\ out.db.student =
          {IF s.course = code THEN [s EXCEPT !.course = NULL] ELSE s :
              s \in d.student}

\* C5: a delete of a college that has programs, or of a program that has
\* students, is never refused by any delete handler: it answers 200,
\* removes the parent and leaves each child in place with a NULL reference.
C5_DeleteSetsNull ==
    /\ \A path \in CollegePaths :
          (upper(path) \in db.college /\ programs_of(db, upper(path)) # {})
          => /\ set_null_college(db, delete_college(db, path), upper(path))
             /\ set_null_college(db, routes_delete_college(db, path), upper(path))
    /\ \A path \in ProgramPaths :
          (/\ \E p \in db.program : p.code = upper(path)
           /\ enrolled(db, upper(path)) # {})
          => /\ set_null_program(db, delete_program(db, path), upper(path))
             /\ set_null_program(db, routes_delete_program(db, path), upper(path))

\* C9: every request that creates, updates or deletes a college, a program
\* or a student leaves none of the three dashboard entries in the cache.
C9_MutationInvalidates ==
    [][db' # db => DOMAIN cache' \cap CacheKeys = {}]_vars

\* C10: the totals of a dashboard read, through the endpoint or through the
\* cached read, are the numbers of rows in the store at that moment.
C10_TotalsAreLive ==
    /\ get_dashboard_stats(db).body = dashboard_totals(db)
    /\ get_cached(cache, db, "dashboard_stats").value = dashboard_totals(db)

\* C11: when a cached dashboard read that missed finishes, whatever student
\* writes with their clear_dashboard_cache ran while it was in flight, the
\* entry it leaves in the cache is the value computed from the store as it
\* is then.
C11_ReadInvalidateSafe ==
    [][(txn.open /\ txn.pc = "computed" /\ ~txn'.open)
       => cache'[txn.cache_key] = cache_compute(db', txn.cache_key)]_vars

C13_ChartCounts ==
    \A rpc \in RpcOutcomes :
        LET body == get_dashboard_charts(db, rpc).body IN
        /\ \A c \in db.college :
              \E r \in body.students_by_college :
                  /\ r.college_code = c
                  /\ r.student_count =
                        Cardinality({s \in db.student : \E p \in db.program :
                                        p.code = s.course /\ p.college = c})
        /\ \A p \in db.program :
              \E r \in body.students_by_program :
                  /\ r.program_code = p.code
                  /\ r.student_count = Cardinality(enrolled(db, p.code))

\* C14: a POST /colleges whose code is, ignoring letter case, the code of a
\* college in the store is answered 400 with "College code already exists"
\* among the errors, and leaves the store as it was.
C14_DuplicateCollegeRejected ==
    \A data \in CollegeData :
        (/\ ~blank(data, "code")
         /\ \E c \in db.college : upper(c) = upper(data.code))
        => LET out == create_college(db, data) IN
           /\ out.resp.status = 400
           /\ \E i \in DOMAIN out.resp.body.errors :
                 out.resp.body.errors[i] = "College code already exists"
           /\ out.db = db

\* a college is stored and a body carries its code in lower case
C14_Witness ==
    \E data \in CollegeData :
        /\ ~blank(data, "code")
        /\ data.code[2] = "lo"
        /\ upper(data.code) \in db.college
        /\ create_college(db, data).resp.status = 400

\* C15: for every body POST /colleges accepts, GET /colleges/{code} with the
\* body's code then answers 200 with the code and the name of the college
\* the create replied, which are the body's code in upper case and the
\* body's name without the blanks around it; at the model layer
\* create_college then get_by_code returns the code and name given.
C15_CreateThenGet ==
    /\ \A data \in CollegeData :
          LET out == create_college(db, data) IN
          out.resp.status = 201
          => LET got == get_college(out.db, data.code) IN
             /\ got.status = 200
             /\ got.body.code = out.resp.body.college.code
             /\ got.body.name = out.resp.body.college.name
             /\ got.body.code = upper(data.code)
             /\ got.body.name = strip(data.name)
    /\ \A code \in CollegeCodes \ db.college :
          LET r == models_create_college(db, code, "Valid Name") IN
          /\ r.err = ""
          /\ models_get_by_code(r.db, code) = [code |-> code, name |-> "Valid Name"]

\* the store holds a program whose college was deleted, and a body typed in
\* lower case with a padded name is accepted
C15_Witness ==
    /\ db.program # {}
    /\ \E data \in CollegeData :
          /\ create_college(db, data).resp.status = 201
          /\ data.code[2] = "lo"
          /\ data.name = PaddedName

\* C16: after any sequence of signups no two rows of users have the same
\* username or the same email, and a signup carrying a username or an email
\* some row already has is answered 400 and leaves the table as it was.
C16_UniqueUsers ==
    /\ \A r1, r2 \in users.rows :
          (r1.username = r2.username \/ r1.email = r2.email) => r1 = r2
    /\ \A data \in SignupData \ {NoData} :
          (\E r \in users.rows : r.username = data.username \/ r.email = data.email)
          => LET out == signup(users, data) IN
             /\ out.resp.status = 400
             /\ out.users = users

\* a signup with a new username, the email of an existing account and a
\* password that would be accepted
C16_Witness ==
    \E data \in SignupData \ {NoData} :
        /\ ~\E r \in users.rows : r.username = data.username
        /\ \E r \in users.rows : r.email = data.email
        /\ data.password = data.confirm_password
        /\ has_uppercase(data.password)
        /\ signup(users, data).resp.status = 400

\* the body of a student request that is valid apart from its course
student_for_course(id, course) ==
    [id |-> id, firstname |-> "Ana", lastname |-> "Cruz",
     course |-> course, year |-> 1, gender |-> "male"]

\* C17: at every state reached by program creates, renames and deletes, the
\* validation of a student create or update passes for a course exactly when
\* a program whose code equals it ignoring case is in the store at that
\* moment, and the create is then answered 201.
C17_ValidationIsFresh ==
    \A course \in ProgramCodes, id \in StudentIds :
        LET data == student_for_course(id, course)
            exists == \E p \in db.program : upper(p.code) = upper(course)
            taken == \E s \in db.student : s.id = upper(id)
        IN  /\ (validate_student_data(db, data, upper(id)) = <<>>) <=> exists
            /\ ~taken =>
                 /\ (validate_student_data(db, data, NULL) = <<>>) <=> exists
                 /\ \A actual_program \in actual_program_for(db, data) :
                        (create_student_json(db, data, actual_program).resp.status = 201)
                        <=> exists

\* one program is in the store and another code is not: a body naming the
\* first in lower case passes validation, a body naming the second does not
C17_Witness ==
    \E course, other \in ProgramCodes, id \in StudentIds :
        /\ course[2] = "lo"
        /\ \E p \in db.program : p.code = upper(course)
        /\ ~\E p \in db.program : upper(p.code) = upper(other)
        /\ ~\E s \in db.student : s.id = upper(id)
        /\ validate_student_data(db, student_for_course(id, course), NULL) = <<>>
        /\ validate_student_data(db, student_for_course(id, other), NULL) # <<>>

C19_GenericStorageError ==
    \A fault, other \in StoreFaults :
        /\ get_colleges_on(db, fault).resp.status = 500
        /\ get_colleges_on(db, fault).resp = get_colleges_on(db, other).resp
        /\ \A data \in LoginData :
              (login_on(users, session, data, NoFault).resp.status \in {200, 401})
              => /\ login_on(users, session, data, fault).resp.status = 500
                 /\ login_on(users, session, data, fault).resp
                    = login_on(users, session, data, other).resp
        /\ "user_id" \in DOMAIN session
           => /\ get_students_on(db, session, fault).resp.status = 500
              /\ get_students_on(db, session, fault).resp
                 = get_students_on(db, session, other).resp

\* the least integer not below total / per_page; per_page # 0
ceil_div(total, per_page) ==
    0 - floordiv(0 - total, per_page)

\* C20: a list reply for total rows and an accepted per_page has
\* pages = ceil(total / per_page), and pages = 0 when total is 0.
C20_PagesIsCeiling ==
    /\ (txn.pc = "replied" /\ txn.resp.status = 200) =>
          txn.resp.body.pages
          = IF txn.resp.body.total = 0 THEN 0
            ELSE ceil_div(txn.resp.body.total, min(txn.per_page, MAX_PAGE_SIZE))
    /\ txn.pc = "paginated" =>
          txn.result.pages
          = IF txn.result.total = 0 THEN 0
            ELSE ceil_div(txn.result.total, txn.result.per_page)

\* ---- the server-generated student id (main.py) ----

\* A student id is "2025-" and a serial; current_year is fixed, so the id is
\* modelled by the text after the dash, a sequence of decimal digits.
SERIAL_WIDTH == 4

MaxLowSerial == 3

RECURSIVE pow10(_)
pow10(k) ==
    IF k = 0 THEN 1 ELSE 10 * pow10(k - 1)

\* the last serial that fits the padded width
LastPadded == pow10(SERIAL_WIDTH) - 1

RECURSIVE digits_of(_)
digits_of(n) ==
    IF n < 10 THEN <<n>> ELSE digits_of(n \div 10) \o <<n % 10>>

RECURSIVE zero_pad(_, _)
zero_pad(ds, width) ==
    IF Len(ds) >= width THEN ds ELSE zero_pad(<<0>> \o ds, width)

\* f"{new_serial:04d}": padded to the width, longer numbers in full
format_serial(n) ==
    zero_pad(digits_of(n), SERIAL_WIDTH)

\* int(last_student.id.split('-')[1])
RECURSIVE int_of(_)
int_of(ds) ==
    IF ds = <<>> THEN 0
    ELSE 10 * int_of(SubSeq(ds, 1, Len(ds) - 1)) + ds[Len(ds)]

\* the order of ORDER BY on a String column: the first differing character
\* decides, and a proper prefix comes first
RECURSIVE str_less(_, _)
str_less(a, b) ==
    IF a = <<>> THEN b # <<>>
    ELSE IF b = <<>> THEN FALSE
    ELSE IF a[1] # b[1] THEN a[1] < b[1]
    ELSE str_less(Tail(a), Tail(b))

generate_student_id(students) ==
    IF students = {}
    THEN format_serial(1)
    ELSE LET last_student ==
                 CHOOSE s \in students : \A t \in students : t = s \/ str_less(t, s)
             last_serial == int_of(last_student)
             new_serial == last_serial + 1
         IN  format_serial(new_serial)

\* the serials followed: the first few and those around the padded width
IdSerials == (1..MaxLowSerial) \cup ((LastPadded - 1)..(LastPadded + 2))

\* the table after creations and deletions that leave some of the serials
\* 1, 2, LastPadded - 1 and LastPadded
InitIds ==
    /\ \E S \in SUBSET {1, 2, LastPadded - 1, LastPadded} :
          db = [students |-> {format_serial(n) : n \in S}]
    /\ session = EmptySession
    /\ users = EmptyUsers
    /\ cache = EmptyCache
    /\ lastLogin = NoLogin
    /\ txn = [r \in Requests |-> [pc |-> "idle"]]

\* POST /students up to new_id = generate_student_id(current_year)
HandleStudentsGenerate ==
    \E r \in Requests :
        LET new_id == generate_student_id(db.students) IN
        /\ txn[r].pc # "generated"
        /\ int_of(new_id) \in IdSerials
        /\ txn' = [txn EXCEPT ![r] = [pc |-> "generated", new_id |-> new_id]]
        /\ UNCHANGED <<db, session, users, cache, lastLogin>>

\* db.session.add(new_student); db.session.commit(): id is the primary key,
\* so the INSERT of an id already stored raises and the request ends in 500
HandleStudentsCommit ==
    \E r \in Requests :
        /\ txn[r].pc = "generated"
        /\ IF txn[r].new_id \in db.students
           THEN /\ txn' = [txn EXCEPT ![r] = [pc |-> "replied", status |-> 500]]
                /\ UNCHANGED db
           ELSE /\ db' = [students |-> db.students \cup {txn[r].new_id}]
                /\ txn' = [txn EXCEPT ![r] = [pc |-> "replied", status |-> 201]]
        /\ UNCHANGED <<session, users, cache, lastLogin>>

\* DELETE /students/<id>
HandleStudentDelete ==
    \E id \in db.students :
        /\ db' = [students |-> db.students \ {id}]
        /\ UNCHANGED <<session, users, cache, txn, lastLogin>>

NextIds ==
    \/ HandleStudentsGenerate
    \/ HandleStudentsCommit
    \/ HandleStudentDelete

SpecIds == InitIds /\ [][NextIds]_vars

\* C21: whatever per_page the client sends, above 100, zero or negative, a
\* list reply never has more than 100 items.
C21_AtMostHundredItems ==
    (txn.pc = "replied" /\ txn.resp.status = 200)
    => Len(txn.resp.body.items) <= MAX_PAGE_SIZE

\* C22: with a sort that is not whitelisted, colleges and programs come
\* ordered by code ascending and students by id ascending, whatever the order
\* parameter is.
C22_UnknownSortNaturalKey ==
    \A order \in OrderArgs :
        /\ LET key == [c \in db.college |-> code_key(c)] IN
           order_colleges(db, "bogus", order) = sorted_by(db.college, key, FALSE)
        /\ LET key == [p \in db.program |-> code_key(p.code)] IN
           order_programs(db, "bogus", order) = sorted_by(db.program, key, FALSE)
        /\ LET key == [x \in db.student |-> code_key(x.id)] IN
           \A store_order \in Perms(db.student) :
               order_students(db, "bogus", order, store_order)
               = sorted_by(db.student, key, FALSE)

\* C23: with filter=all a student is in the result exactly when the search
\* term is, ignoring case, a substring of its id, its firstname, its lastname
\* or its course.
C23_SearchAllIsFieldOr ==
    txn.pc = "searched" =>
        (txn.kept <=>
            \E f \in {"id", "firstname", "lastname", "course"} :
                is_in(lower(txn.search), lower(txn.student[f])))

\* C24: when two creates of the same new college code have both passed the
\* validation before either inserts, then once both are answered exactly one
\* row with the code is stored, at most one answer is 201, and a 201 has its
\* row in the store.
C24_OneRowOneCreated ==
    (txn.open /\ txn.pc = "race" /\ \A r \in Requests : txn.at[r] = "done")
    => /\ upper(txn.data.code) \in db.college
       /\ Cardinality({r \in Requests : txn.status[r] = 201}) <= 1

\* C25: a statement that raises inside get_cursor, under commit=True and
\* under commit=False, leaves the shared connection rolled back, so that the
\* connection is never left in an aborted transaction for the next operation.
C25_ErrorRollsBack ==
    txn.pc # "aborted"

\* C26: a PUT with a valid body for a stored student is answered 200, the
\* student then has the course of the body, and under a new unused id it is
\* found under the new id and no longer under the old one.
C26_UpdateStores ==
    \A path \in StudentIds, data \in StudentData \ {NoData} :
        ((\E x \in db.student : x.id = upper(path))
         /\ validate_student_data(db, data, upper(path)) = <<>>)
        => LET out == update_student_json(db, path, data) IN
           /\ out.resp.status = 200
           /\ \E x \in out.db.student :
                 x.id = upper(data.id) /\ x.course = upper(data.course)
           /\ upper(data.id) # upper(path)
              => ~\E x \in out.db.student : x.id = upper(path)

\* C27: after a photo delete answered 200 the student has no photo, so that
\* a second delete for the same student is answered 400 'Student has no
\* profile photo' before storage is asked again.
C27_PhotoDeleteClears ==
    \A path \in StudentIds, removed \in BOOLEAN :
        LET out == delete_student_photo(db, session, path, removed) IN
        out.resp.status = 200
        => /\ \A x \in out.db.student : x.id = upper(path) => x.photo = NULL
           /\ \A again \in BOOLEAN :
                 delete_student_photo(out.db, session, path, again).resp
                 = Resp(400, [error |-> "Student has no profile photo"])

\* C28: for per_page >= 1 over an unchanged list, page p of 1..pages holds
\* the rows (p-1)*per_page+1 .. min(p*per_page, total), so that the pages
\* concatenated are the rows once each, total is their number, and every
\* page outside 1..pages, 0 and negative pages included, has no items.
C28_PagesPartitionRows ==
    (txn.pc = "replied" /\ txn.per_page >= 1)
    => LET per_page == min(txn.per_page, MAX_PAGE_SIZE)
           body == txn.resp.body
           first == (txn.page - 1) * per_page + 1
           last == min(txn.page * per_page, txn.total)
       IN  /\ txn.resp.status = 200
           /\ body.total = txn.total
           /\ body.items = IF txn.page \in 1..body.pages
                           THEN [k \in 1..(last - first + 1) |-> first + k - 1]
                           ELSE <<>>

\* C29: a login that fails (no body, a missing field, an unknown username,
\* a wrong password) leaves the session as it was, logged in or anonymous; a
\* login that succeeds leaves a session holding exactly the user_id and the
\* username of the user it answers.
C29_FailedLoginKeepsSession ==
    \A data \in LoginData :
        LET out == login(users, session, data) IN
        IF out.resp.status = 200
        THEN out.session = [user_id |-> out.resp.body.user.id,
                            username |-> out.resp.body.user.username]
        ELSE out.session = session

\* a client logged in as one user, for whom one login fails with 401 and
\* another succeeds as a different user
C29_Witness ==
    /\ "user_id" \in DOMAIN session
    /\ \E data \in LoginData : login(users, session, data).resp.status = 401
    /\ \E data \in LoginData :
          LET out == login(users, session, data) IN
          /\ out.resp.status = 200
          /\ out.session.user_id # session.user_id

\* C30: generate_student_id returns an id that no stored student has, after
\* any creations and deletions, past serial 9999 too, and the id a creation
\* holds is still free when a second creation runs beside it.
C30_GeneratedIdIsFresh ==
    /\ generate_student_id(db.students) \notin db.students
    /\ \A r \in Requests :
          txn[r].pc = "generated" => txn[r].new_id \notin db.students

====
